---- MODULE Spec2Model ----
(***************************************************************************)
(* Reversible random number generators: the reversible PCG engine, the     *)
(* reversible Mersenne Twister, the distributions and the composite        *)
(* ReversibleRNG, as state machines.                                       *)
(*                                                                         *)
(* Widths are scaled so that TLC can enumerate the words: a "64-bit" word  *)
(* of the source is word_size = 2 * half_size bits here, a "32-bit" word   *)
(* is half_size bits and a "128-bit" PCG state is 2 * word_size bits.      *)
(* Every multi-word constant of the source is cut to the bits that fit:    *)
(* the low bits of multipliers, inverses and increments (arithmetic modulo *)
(* 2^w only reads those), the high bits of masks.  The Mersenne state      *)
(* array has state_size words instead of 312.                              *)
(***************************************************************************)
EXTENDS Integers, Sequences, FiniteSets, TLC

(***************************************************************************)
(* Bounds of the model.                                                    *)
(***************************************************************************)
\* Bits of a "32-bit" word; a "64-bit" word has twice as many.
half_size == 3
\* Words of the Mersenne state array (312 in mersenne.h:53).
state_size == 4
\* Seeds tried: 0 .. MaxSeed.
MaxSeed == 1
\* Net draws kept within -MaxBack .. MaxFwd of the seeded point.
MaxFwd == 6
MaxBack == 5

(***************************************************************************)
(* Fixed-width unsigned arithmetic.                                        *)
(***************************************************************************)
Pow2(n) == 2 ^ n

RECURSIVE BitAnd(_, _)
BitAnd(a, b) ==
  IF a = 0 \/ b = 0 THEN 0
  ELSE (a % 2) * (b % 2) + 2 * BitAnd(a \div 2, b \div 2)

RECURSIVE BitXor(_, _)
BitXor(a, b) ==
  IF a = 0 THEN b
  ELSE IF b = 0 THEN a
  ELSE ((a + b) % 2) + 2 * BitXor(a \div 2, b \div 2)

BitOr(a, b) == a + b - BitAnd(a, b)

\* x << k in a w-bit unsigned type
Shl(x, k, w) == IF k >= w THEN 0 ELSE (x % Pow2(w - k)) * Pow2(k)

\* x >> k
Shr(x, k) == x \div Pow2(k)

\* a * b in a w-bit unsigned type (w <= 16), without leaving TLC's integers
MulMod(a, b, w) ==
  LET lo == a * (b % 256)
      hi == (a * (b \div 256)) % Pow2(IF w > 8 THEN w - 8 ELSE 0)
  IN  (lo + hi * 256) % Pow2(w)

\* a + b and a - b in a w-bit unsigned type
AddMod(a, b, w) == (a + b) % Pow2(w)
SubMod(a, b, w) == (a - b + Pow2(w)) % Pow2(w)

\* rotate the w-bit word x right by k
Rotr(x, k, w) ==
  LET r == k % w
  IN  IF r = 0 THEN x ELSE BitOr(Shr(x, r), Shl(x, w - r, w))

(***************************************************************************)
(* ReversibleMersenne (src/src/mersenne.h, src/src/mersenne.cpp).          *)
(* An engine value is [kind |-> "mt", state_ |-> array, pos_ |-> index].   *)
(***************************************************************************)
word_size == 2 * half_size
shift_size == state_size \div 2
\* 31 of the 64 bits are "lower" bits
mask_bits == word_size \div 2 - 1
word_max == Pow2(word_size) - 1
lower_mask == Pow2(mask_bits) - 1
upper_mask == word_max - lower_mask
\* 0xb5026f5aa96619e9, 0x5555..., 0x71d67fffeda60000, 0xfff7eee000000000:
\* their 16 high bits, of which the model keeps the word_size highest
xor_mask_hi == 46338
tempering_d_hi == 21845
tempering_b_hi == 29142
tempering_c_hi == 65527
\* 6364136223846793005: its 16 low bits
initialization_multiplier_lo == 32557
HighBits(c) == Shr(c, 16 - word_size)
xor_mask == HighBits(xor_mask_hi)
first_mask == Pow2(word_size - 1)
ScaleShift(s) == (s * word_size) \div 64
tempering_u == ScaleShift(29)
tempering_d == HighBits(tempering_d_hi)
tempering_s == ScaleShift(17)
tempering_b == HighBits(tempering_b_hi)
tempering_t == ScaleShift(37)
tempering_c == HighBits(tempering_c_hi)
tempering_l == ScaleShift(43)
initialization_multiplier == initialization_multiplier_lo % Pow2(word_size)

Words == 0 .. word_max
StateIndex == 0 .. state_size - 1

RECURSIVE SeedLoop(_, _)
SeedLoop(st, i) ==
  IF i >= state_size THEN st
  ELSE LET x0 == st[i - 1]
           x1 == BitXor(x0, Shr(x0, word_size - 2))
           x2 == MulMod(x1, initialization_multiplier, word_size)
           x3 == AddMod(x2, i, word_size)
       IN  SeedLoop([st EXCEPT ![i] = x3], i + 1)

MtSeed(sd) ==
  [kind |-> "mt",
   state_ |-> SeedLoop([k \in StateIndex |-> IF k = 0 THEN sd ELSE 0], 1),
   pos_ |-> state_size]

temper(z0) ==
  LET z1 == BitXor(z0, BitAnd(Shr(z0, tempering_u), tempering_d))
      z2 == BitXor(z1, BitAnd(Shl(z1, tempering_s, word_size), tempering_b))
      z3 == BitXor(z2, BitAnd(Shl(z2, tempering_t, word_size), tempering_c))
  IN  BitXor(z3, Shr(z3, tempering_l))

RECURSIVE TwistLoop(_, _)
TwistLoop(st, k) ==
  IF k >= state_size THEN st
  ELSE LET y == BitOr(BitAnd(st[k], upper_mask),
                      BitAnd(st[(k + 1) % state_size], lower_mask))
           v == BitXor(BitXor(st[(k + shift_size) % state_size], Shr(y, 1)),
                       IF y % 2 = 1 THEN xor_mask ELSE 0)
       IN  TwistLoop([st EXCEPT ![k] = v], k + 1)

twist(e) == [e EXCEPT !.state_ = TwistLoop(e.state_, 0), !.pos_ = 0]

\* The loop body of untwist without the low bit that state_[k] |= 0x01 sets.
UntwistWordNoLowBit(st, k) ==
  LET ya == BitXor(st[k], st[(k + shift_size) % state_size])
      yb == IF BitAnd(ya, first_mask) # 0 THEN BitXor(ya, xor_mask) ELSE ya
      s1 == [st EXCEPT ![k] = BitAnd(Shl(yb, 1, word_size), upper_mask)]
      yc == BitXor(s1[(k - 1 + state_size) % state_size],
                   s1[(k - 1 + shift_size) % state_size])
      yd == IF BitAnd(yc, first_mask) # 0 THEN BitXor(yc, xor_mask) ELSE yc
  IN  BitOr(s1[k], BitAnd(Shl(yd, 1, word_size), lower_mask))

\* The body of the loop of untwist for index k: state_[k] is written in two
\* parts, and the second part reads the array after the first write.
UntwistWord(st, k) ==
  LET ya == BitXor(st[k], st[(k + shift_size) % state_size])
      yb == IF BitAnd(ya, first_mask) # 0 THEN BitXor(ya, xor_mask) ELSE ya
      s1 == [st EXCEPT ![k] = BitAnd(Shl(yb, 1, word_size), upper_mask)]
      yc == BitXor(s1[(k - 1 + state_size) % state_size],
                   s1[(k - 1 + shift_size) % state_size])
      odd == BitAnd(yc, first_mask) # 0
      yd == IF odd THEN BitXor(yc, xor_mask) ELSE yc
      w1 == IF odd THEN BitOr(s1[k], 1) ELSE s1[k]
  IN  BitOr(w1, BitAnd(Shl(yd, 1, word_size), lower_mask))

\* A twist inverse that rebuilds the words in ascending order (a slip the
\* round-trip properties must detect).
RECURSIVE UntwistLoopAscending(_, _)
UntwistLoopAscending(st, k) ==
  IF k >= state_size THEN st
  ELSE UntwistLoopAscending([st EXCEPT ![k] = UntwistWord(st, k)], k + 1)

RECURSIVE UntwistLoop(_, _)
UntwistLoop(st, k) ==
  IF k < 0 THEN st
  ELSE UntwistLoop([st EXCEPT ![k] = UntwistWord(st, k)], k - 1)

untwist_ascending(e) ==
  [e EXCEPT !.state_ = UntwistLoopAscending(e.state_, 0), !.pos_ = state_size]

untwist(e) ==
  [e EXCEPT !.state_ = UntwistLoop(e.state_, state_size - 1), !.pos_ = state_size]

\* next() and previous(): the engine after the call and the word returned
\* return temper(state_[pos_++]) and return temper(state_[--pos_])
ReadForward(e) ==
  [eng |-> [e EXCEPT !.pos_ = e.pos_ + 1], out |-> temper(e.state_[e.pos_])]
ReadBackward(e) ==
  [eng |-> [e EXCEPT !.pos_ = e.pos_ - 1], out |-> temper(e.state_[e.pos_ - 1])]

MtNext(e) == ReadForward(IF e.pos_ >= state_size THEN twist(e) ELSE e)

MtPrevious(e) == ReadBackward(IF e.pos_ <= 0 THEN untwist(e) ELSE e)

\* A discard that adds z to pos_ and never twists.
MtDiscardNoTwist(e, z) == [e EXCEPT !.pos_ = e.pos_ + z]

\* A discard that adds z to pos_ and twists once at most.
MtDiscardOneTwist(e, z) ==
  IF z > state_size - e.pos_
  THEN [twist(e) EXCEPT !.pos_ = z - (state_size - e.pos_)]
  ELSE [e EXCEPT !.pos_ = e.pos_ + z]

\* discard(z): while (z > state_size - pos_) { z -= state_size - pos_;
\* twist(); } pos_ += z
RECURSIVE MtDiscard(_, _)
MtDiscard(e, z) ==
  IF z > state_size - e.pos_
  THEN MtDiscard(twist(e), z - (state_size - e.pos_))
  ELSE [e EXCEPT !.pos_ = e.pos_ + z]

\* operator== of ReversibleMersenne
MtEqual(l, r) == l.state_ = r.state_ /\ l.pos_ = r.pos_

(***************************************************************************)
(* ReversiblePCG (src/src/pcg.h) over the engine of pcg_random.hpp.        *)
(* An engine value is [kind |-> configuration, state |-> LCG state].       *)
(*   pcg32      setseq_xsh_rr_64_32     "64-bit" state, "32-bit" output    *)
(*   pcg64      setseq_xsl_rr_128_64    "128-bit" state, "64-bit" output   *)
(*   pcg64_fast mcg_xsl_rr_128_64       increment 0                        *)
(*   pcg64_cm   cm_setseq_xsl_rr_128_64 cheap multiplier                   *)
(***************************************************************************)
PCGKinds == {"pcg32", "pcg64", "pcg64_fast", "pcg64_cm"}

itype_bits(kind) == IF kind = "pcg32" THEN word_size ELSE 2 * word_size
xtype_bits(kind) == IF kind = "pcg32" THEN half_size ELSE word_size

\* engine<..., bool output_previous = (sizeof(itype) <= 8), ...>
output_previous(kind) == kind = "pcg32"
is_mcg(kind) == kind = "pcg64_fast"

\* The 16 low bits of the multipliers of pcg_random.hpp:
\* 6364136223846793005 (64-bit default), 0x...4385df649fccf645 (128-bit
\* default), 0xda942042e4dd58b5 (cheap), and of the default increment
\* 1442695040888963407.
default_multiplier_64_lo == 32557
default_multiplier_128_lo == 63045
cheap_multiplier_128_lo == 22709
default_increment_lo == 33103
\* The 16 low bits of the inverses tabulated in pcg.h.
inverse_64_lo == 10405
inverse_128_lo == 44173
inverse_cheap_128_lo == 54685

multiplier(kind) ==
  (CASE kind = "pcg32" -> default_multiplier_64_lo
     [] kind = "pcg64_cm" -> cheap_multiplier_128_lo
     [] OTHER -> default_multiplier_128_lo) % Pow2(itype_bits(kind))

multiplier_inverse(kind) ==
  (CASE kind = "pcg32" -> inverse_64_lo
     [] kind = "pcg64_cm" -> inverse_cheap_128_lo
     [] OTHER -> inverse_128_lo) % Pow2(itype_bits(kind))

increment(kind) ==
  IF is_mcg(kind) THEN 0 ELSE default_increment_lo % Pow2(itype_bits(kind))

\* engine::bump
bump(kind, state) ==
  AddMod(MulMod(state, multiplier(kind), itype_bits(kind)), increment(kind),
         itype_bits(kind))

\* An inverse that forgets the increment.
unbump_no_increment(kind, state) ==
  MulMod(state, multiplier_inverse(kind), itype_bits(kind))

\* ReversiblePCG::unbump
unbump(kind, state) ==
  MulMod(SubMod(state, increment(kind), itype_bits(kind)),
         multiplier_inverse(kind), itype_bits(kind))

RECURSIVE Log2Floor(_)
Log2Floor(n) == IF n <= 1 THEN 0 ELSE 1 + Log2Floor(n \div 2)

Min(a, b) == IF a <= b THEN a ELSE b

\* xsh_rr_mixin::output and xsl_rr_mixin::output
output(kind, internal) ==
  LET bits == itype_bits(kind)
      xtypebits == xtype_bits(kind)
      sparebits == bits - xtypebits
      wantedopbits == Log2Floor(xtypebits)
      opbits == Min(wantedopbits, sparebits)
      amplifier == wantedopbits - opbits
      mask == Pow2(opbits) - 1
      topspare == IF kind = "pcg32" THEN opbits ELSE sparebits
      bottomspare == sparebits - topspare
      xshift == (topspare + xtypebits) \div 2
      rot == IF opbits > 0 THEN BitAnd(Shr(internal, bits - opbits), mask) ELSE 0
      amprot == BitAnd(rot * Pow2(amplifier), mask)
      mixed == BitXor(internal, Shr(internal, xshift))
      result == Shr(mixed, bottomspare) % Pow2(xtypebits)
  IN  Rotr(result, amprot, xtypebits)

\* engine::seed: state_ = is_mcg ? state | 3 : bump(state + increment())
PcgSeed(kind, sd) ==
  [kind |-> kind,
   state |-> IF is_mcg(kind) THEN BitOr(sd, 3)
             ELSE bump(kind, AddMod(sd, increment(kind), itype_bits(kind)))]

\* engine::operator() through base_generate0 / base_generate
BaseGenerate(e, old, new) ==
  [eng |-> [e EXCEPT !.state = new],
   out |-> output(e.kind, IF output_previous(e.kind) THEN old ELSE new)]

PcgNext(e) == BaseGenerate(e, e.state, bump(e.kind, e.state))

\* ReversiblePCG::previous through base_ungenerate0 / base_ungenerate
BaseUngenerate(e, old) ==
  [eng |-> [e EXCEPT !.state = old],
   out |-> output(e.kind, IF output_previous(e.kind) THEN old ELSE e.state)]

PcgPrevious(e) == BaseUngenerate(e, unbump(e.kind, e.state))

(***************************************************************************)
(* The reversible engines behind one interface.                            *)
(***************************************************************************)
EngineKinds == PCGKinds \cup {"mt"}

EngineSeed(kind, sd) == IF kind = "mt" THEN MtSeed(sd) ELSE PcgSeed(kind, sd)
EngineNext(e) == IF e.kind = "mt" THEN MtNext(e) ELSE PcgNext(e)
EnginePrevious(e) == IF e.kind = "mt" THEN MtPrevious(e) ELSE PcgPrevious(e)
\* operator== of the engine
EngineEqual(l, r) == IF l.kind = "mt" THEN MtEqual(l, r) ELSE l.state = r.state
\* bits of result_type
result_bits(kind) == IF kind = "mt" THEN word_size ELSE xtype_bits(kind)

(***************************************************************************)
(* Splitmix64 and Xoshiro256 (src/src/xoshiro.h, src/src/xoshiro.cpp), the *)
(* transient generators behind the widening path and the Ziggurat.         *)
(***************************************************************************)
\* 0x9e3779b97f4a7c15, 0xbf58476d1ce4e5b9, 0x94d049bb133111eb: 16 low bits
splitmix_gamma_lo == 31765
splitmix_mul1_lo == 58809
splitmix_mul2_lo == 4587

\* Splitmix64::operator(): the state after the call and the word returned
SplitmixNext(x) ==
  LET x1 == AddMod(x, splitmix_gamma_lo % Pow2(word_size), word_size)
      z1 == MulMod(BitXor(x1, Shr(x1, ScaleShift(30))),
                   splitmix_mul1_lo % Pow2(word_size), word_size)
      z2 == MulMod(BitXor(z1, Shr(z1, ScaleShift(27))),
                   splitmix_mul2_lo % Pow2(word_size), word_size)
  IN  [x |-> x1, out |-> BitXor(z2, Shr(z2, ScaleShift(31)))]

\* Xoshiro256::seed(sd): four words of a Splitmix64 seeded with sd
RECURSIVE SplitmixFill(_, _)
SplitmixFill(x, st) ==
  IF Len(st) = 4 THEN st
  ELSE SplitmixFill(AddMod(x, splitmix_gamma_lo % Pow2(word_size), word_size),
                    Append(st, SplitmixNext(x).out))

XoshiroSeed(sd) == SplitmixFill(sd, <<>>)

rotl(x, k) == BitOr(Shl(x, k, word_size), Shr(x, word_size - k))

\* Xoshiro256::operator(): state_[i] is st[i + 1]
XoshiroNext(st) ==
  LET result == AddMod(st[1], st[4], word_size)
      t == Shl(st[2], ScaleShift(17), word_size)
      s2a == BitXor(st[3], st[1])
      s3a == BitXor(st[4], st[2])
      s1a == BitXor(st[2], s2a)
      s0a == BitXor(st[1], s3a)
      s2b == BitXor(s2a, t)
      s3b == rotl(s3a, ScaleShift(45))
  IN  [st |-> <<s0a, s1a, s2b, s3b>>, out |-> result]

(***************************************************************************)
(* Uniform random bit generators as the distributions see them: the        *)
(* engine itself, the engine behind ReversedEngine, a Xoshiro256, or a     *)
(* generator that returns one given word on every call.  A source carries  *)
(* the count of words drawn from it.                                       *)
(***************************************************************************)
\* Rejection loops give up after this many words.
MaxWords == 24

ForwardSource(e) == [k |-> "engine", e |-> e, n |-> 0]
\* ReversedEngine(rurng)
ReversedSource(e) == [k |-> "reversed", e |-> e, n |-> 0]
XoshiroSource(sd) == [k |-> "xoshiro", st |-> XoshiroSeed(sd), n |-> 0]
\* a URNG of the given bits whose operator() returns word
ConstantSource(word, bits) ==
  [k |-> "constant", word |-> word, bits |-> bits, n |-> 0]

\* URNG::max() - URNG::min(), as a number of bits
SourceBits(u) ==
  CASE u.k = "xoshiro" -> word_size
    [] u.k = "constant" -> u.bits
    [] OTHER -> result_bits(u.e.kind)

\* the source u after it gave the word of the engine step r
Stepped(u, r) == [u |-> [u EXCEPT !.e = r.eng, !.n = u.n + 1], out |-> r.out]

\* A reversed engine that holds a copy of the engine and steps the copy.
ReversedDrawCopy(u) ==
  [u |-> [u EXCEPT !.n = u.n + 1], out |-> EnginePrevious(u.e).out]

\* ReversedEngine::operator(): previous() of the engine engine_ refers to
ReversedDraw(u) == Stepped(u, EnginePrevious(u.e))

\* rng() on a Xoshiro256
XoshiroStepped(u, r) == [u |-> [u EXCEPT !.st = r.st, !.n = u.n + 1], out |-> r.out]
XoshiroDraw(u) == XoshiroStepped(u, XoshiroNext(u.st))

\* urng(): the source after the call and the word returned
Draw(u) ==
  CASE u.k = "engine" -> Stepped(u, EngineNext(u.e))
    [] u.k = "reversed" -> ReversedDraw(u)
    [] u.k = "constant" -> [u |-> [u EXCEPT !.n = u.n + 1], out |-> u.word]
    [] OTHER -> XoshiroDraw(u)

(***************************************************************************)
(* util::lemires, util::float64, util::float32 (src/src/uniform.h).        *)
(* A sampling result is [u |-> the source after the call, out |-> the      *)
(* value, stuck |-> TRUE when a rejection loop did not end within MaxWords *)
(* words, in which case out means nothing].  Where the source draws a word *)
(* and then works on it, the operator named ...Of is the work on the drawn *)
(* word r = [u |-> source after the draw, out |-> word].                   *)
(***************************************************************************)
\* while (l < threshold) { product = urng() * range; l = product; }
RECURSIVE LemiresLoop(_, _, _, _)
LemiresRedraw(r, range, threshold) ==
  LemiresLoop(r.u, range, threshold, r.out * range)

LemiresLoop(u, range, threshold, product) ==
  IF product % Pow2(word_size) >= threshold
  THEN [u |-> u, out |-> Shr(product, word_size), stuck |-> FALSE]
  ELSE IF u.n >= MaxWords THEN [u |-> u, out |-> 0, stuck |-> TRUE]
  ELSE LemiresRedraw(Draw(u), range, threshold)

\* A reduction that takes the high half of the first product whatever its
\* low half.
LemiresNoReject(r, range) ==
  [u |-> r.u, out |-> Shr(r.out * range, word_size), stuck |-> FALSE]

LemiresOf(r, range) ==
  IF (r.out * range) % Pow2(word_size) < range
  THEN LemiresLoop(r.u, range, (Pow2(word_size) - range) % range, r.out * range)
  ELSE [u |-> r.u, out |-> Shr(r.out * range, word_size), stuck |-> FALSE]

lemires(u, range) == LemiresOf(Draw(u), range)

\* float64 keeps the 53 high bits of 64, float32 the 24 high bits of 32
float64_drop == (11 * word_size) \div 64
float32_drop == (8 * half_size) \div 32
float64_digits == word_size - float64_drop
float32_digits == half_size - float32_drop
\* A conversion that rounds the word to the nearest numerator.
float64_nearest(x) == Shr(x + Pow2(float64_drop - 1), float64_drop)

\* the numerator k of the canonical value k / 2^digits
float64(x) == Shr(x, float64_drop)
float32(x) == Shr(x, float32_drop)

\* util::canonical(rng) on the transient Xoshiro256: one word, as the
\* numerator of the canonical value
CanonicalOf(r) == [u |-> r.u, out |-> float64(r.out)]
canonical(rng) == CanonicalOf(XoshiroDraw(rng))

(***************************************************************************)
(* UniformIntDistribution (src/src/uniform.h).  A distribution value is    *)
(* [kind |-> "uniform_int", type |-> result type, a |-> a, b |-> b]; result *)
(* types are "int" (signed, half_size bits), "long" (signed, word_size     *)
(* bits) and "ulong" (unsigned, word_size bits).                           *)
(***************************************************************************)
TypeBits(type) == IF type = "int" THEN half_size ELSE word_size
TypeSigned(type) == type # "ulong"
TypeMin(type) == IF TypeSigned(type) THEN -Pow2(TypeBits(type) - 1) ELSE 0
TypeMax(type) ==
  IF TypeSigned(type) THEN Pow2(TypeBits(type) - 1) - 1 ELSE Pow2(TypeBits(type)) - 1

Max(a, b) == IF a >= b THEN a ELSE b
Abs(x) == IF x < 0 THEN -x ELSE x

\* conversion of the integer v to an unsigned type of the given bits
ToUnsigned(v, bits) == ((v % Pow2(bits)) + Pow2(bits)) % Pow2(bits)

\* conversion of the unsigned value v to result_type
ToResult(v, type) ==
  LET t == v % Pow2(TypeBits(type))
  IN  IF TypeSigned(type) /\ t >= Pow2(TypeBits(type) - 1)
      THEN t - Pow2(TypeBits(type)) ELSE t

\* uc_type(x) + a(), returned as result_type
Offset(x, d, ucbits) ==
  ToResult(AddMod(x, ToUnsigned(d.a, ucbits), ucbits), d.type)

\* A return statement that leaves out the reduction modulo range.
OffsetOfUnreduced(r, d, ucbits, range) ==
  [u |-> r.u, out |-> Offset(r.out, d, ucbits), stuck |-> r.stuck]

\* the sample for the value r.out in [0, range), range = 0 for no reduction
OffsetOf(r, d, ucbits, range) ==
  [u |-> r.u,
   out |-> Offset(IF range = 0 THEN r.out ELSE r.out % range, d, ucbits),
   stuck |-> r.stuck]

\* a word taken as it is
Plain(r) == [u |-> r.u, out |-> r.out, stuck |-> FALSE]

\* b() - a() in uc_type
DistRange(d, ucbits) ==
  SubMod(ToUnsigned(d.b, ucbits), ToUnsigned(d.a, ucbits), ucbits)

\* do { x = urng() } while (x >= threshold)
RECURSIVE ModuloLoop(_, _)
\* A loop that also takes the word equal to the threshold.
ModuloOfInclusive(r, threshold) ==
  IF r.out <= threshold THEN [u |-> r.u, out |-> r.out, stuck |-> FALSE]
  ELSE IF r.u.n >= MaxWords THEN [u |-> r.u, out |-> 0, stuck |-> TRUE]
  ELSE ModuloLoop(r.u, threshold)

ModuloOf(r, threshold) ==
  IF r.out < threshold THEN [u |-> r.u, out |-> r.out, stuck |-> FALSE]
  ELSE IF r.u.n >= MaxWords THEN [u |-> r.u, out |-> 0, stuck |-> TRUE]
  ELSE ModuloLoop(r.u, threshold)

ModuloLoop(u, threshold) == ModuloOf(Draw(u), threshold)

\* A 64-bit sampler that takes the word as it is whatever the range.
UniformIntWideEqualOnly(d, u) == OffsetOf(Plain(Draw(u)), d, word_size, 0)

\* UniformIntDistribution::operator()(urng) for a source of word_size bits
UniformIntWide(d, u) ==
  OffsetOf(IF Pow2(word_size) - 1 > DistRange(d, word_size)
           THEN lemires(u, DistRange(d, word_size) + 1)
           ELSE Plain(Draw(u)),
           d, word_size, 0)

\* A seed that takes its high half from the first word alone.
ReversibleSeedFirstWord(r1, r2, r3) ==
  BitOr(Shl(r1.out, half_size, word_size), r2.out)

\* reversible_seed = (u1 ^ u3) << 32 | u2 of the words r1, r2, r3
ReversibleSeed(r1, r2, r3) ==
  BitOr(Shl(BitXor(r1.out, r3.out), half_size, word_size), r2.out)

\* the three words of the widening path, from the first
ThirdOf(r1, r2, r3) == [u |-> r3.u, seed |-> ReversibleSeed(r1, r2, r3)]
SecondOf(r1, r2) == ThirdOf(r1, r2, Draw(r2.u))
ThreeWords(r1) == SecondOf(r1, Draw(r1.u))

\* the sample r of the transient Xoshiro256, the source left at w.u
Widened(r, w) == [u |-> w.u, out |-> r.out, stuck |-> r.stuck]
WidenedOf(d, w) == Widened(UniformIntWide(d, XoshiroSource(w.seed)), w)

\* throw std::runtime_error(...): no value is returned; the source is as
\* the call found it
Thrown(u) == [u |-> u, out |-> 0, stuck |-> FALSE, thrown |-> TRUE]

\* the call that gave r ended in an exception
Threw(r) == "thrown" \in DOMAIN r

\* A sampler that takes the widening path for every narrower source.
UniformIntNarrowWidening(d, u, ucbits, urng_range, dist_range) ==
  IF urng_range = dist_range
  THEN OffsetOf(Plain(Draw(u)), d, ucbits, 0)
  ELSE IF urng_range > dist_range
  THEN OffsetOf(ModuloLoop(u, urng_range - (urng_range % (dist_range + 1))),
                d, ucbits, dist_range + 1)
  ELSE WidenedOf(d, ThreeWords(Draw(u)))

\* UniformIntDistribution::operator()(urng) for a source of fewer than
\* word_size bits
UniformIntNarrow(d, u, ucbits, urng_range, dist_range) ==
  IF urng_range = dist_range
  THEN OffsetOf(Plain(Draw(u)), d, ucbits, 0)
  ELSE IF urng_range > dist_range
  THEN OffsetOf(ModuloLoop(u, urng_range - (urng_range % (dist_range + 1))),
                d, ucbits, dist_range + 1)
  ELSE IF urng_range = Pow2(half_size) - 1
  THEN WidenedOf(d, ThreeWords(Draw(u)))
  ELSE Thrown(u)

\* UniformIntDistribution::operator()(urng)
UniformInt(d, u) ==
  IF SourceBits(u) = word_size THEN UniformIntWide(d, u)
  ELSE UniformIntNarrow(d, u, Max(SourceBits(u), TypeBits(d.type)),
                        Pow2(SourceBits(u)) - 1,
                        DistRange(d, Max(SourceBits(u), TypeBits(d.type))))

(***************************************************************************)
(* UniformRealDistribution and ExponentialDistribution.  Result types are  *)
(* "double" and "float", binary floating point with float64_digits and     *)
(* float32_digits bits of significand (53 and 24 in the source); every     *)
(* conversion and every arithmetic operation rounds to nearest, ties to    *)
(* even.  Real parameters are integers here.  A real sample is kept as the *)
(* numerator of the value over 2^digits, an exponential sample as the      *)
(* canonical numerator it is the image of.                                 *)
(***************************************************************************)
\* bits of significand of the result type
RealBits(type) == IF type = "float" THEN float32_digits ELSE float64_digits

RoundUp(q, r, h) == r > h \/ (r = h /\ q % 2 = 1)

\* the magnitude a, longer than p bits by s, rounded to p bits
RoundMagnitude(a, s) ==
  (IF RoundUp(a \div Pow2(s), a % Pow2(s), Pow2(s - 1))
   THEN a \div Pow2(s) + 1 ELSE a \div Pow2(s)) * Pow2(s)

\* the integer n rounded to p significant bits
RoundBits(n, p) ==
  IF n = 0 \/ Log2Floor(Abs(n)) + 1 <= p THEN n
  ELSE IF n < 0 THEN -RoundMagnitude(-n, Log2Floor(-n) + 1 - p)
  ELSE RoundMagnitude(n, Log2Floor(n) + 1 - p)

\* result * (b() - a()) + a() in the result type, for result = k / 2^digits
RealOf(r, d, k, digits) ==
  [u |-> r.u,
   out |-> [num |-> RoundBits(RoundBits(k * (d.b - d.a), RealBits(d.type))
                              + d.a * Pow2(digits), RealBits(d.type)),
            digits |-> digits],
   stuck |-> FALSE]

\* result = util::float64(urng()) or util::float32(urng()), converted to
\* result_type
UniformRealOf(r, d, wide) ==
  IF wide
  THEN RealOf(r, d, RoundBits(float64(r.out), RealBits(d.type)), float64_digits)
  ELSE RealOf(r, d, float32(r.out), float32_digits)

\* A uniform real sample that draws a second word and computes from it.
UniformRealSecondWord(d, u) ==
  UniformRealOf(Draw(Draw(u).u), d, SourceBits(u) = word_size)

\* UniformRealDistribution::operator()(urng)
UniformReal(d, u) == UniformRealOf(Draw(u), d, SourceBits(u) = word_size)

\* -std::log(result_type(1) - float64(x)) / lambda(): the sample is kept as
\* the numerator of 1 - float64(x) over 2^float64_digits, the argument of log
ExponentialOf64(r, d) ==
  [u |-> r.u,
   out |-> [one_minus |-> RoundBits(Pow2(float64_digits) - float64(r.out),
                                    float64_digits),
            lambda |-> d.lambda],
   stuck |-> FALSE]

\* ExponentialDistribution::operator()(urng)
Exponential(d, u) == ExponentialOf64(Draw(u), d)

(***************************************************************************)
(* NormalDistribution::ziggurat (src/reverse.hpp).  The word is split as   *)
(* in the source: the low zig_index_bits bits select the rectangle, one    *)
(* bit is skipped, the next half_size bits are the signed r.  The tables   *)
(* KN, FN and the functions exp and log1p are integer stand-ins of the     *)
(* same shape (KN[1] = 0, FN decreasing from FN[0]); a sample is kept as   *)
(* the r, index and tail draw it is computed from.  std::abs(r) of the most *)
(* negative r is undefined in the source: a build either leaves it         *)
(* negative, which compares above every KN as unsigned, or takes the       *)
(* comparison as true; below_kn says which, and is fixed for a run.        *)
(***************************************************************************)
zig_index_bits == half_size - 1
zig_layers == Pow2(zig_index_bits)
zig_r_shift == zig_index_bits + 1
zig_r_max == Pow2(half_size - 1)

\* std::int32_t r = rand >> 8
ZigR(rand) ==
  LET t == Shr(rand, zig_r_shift) % Pow2(half_size)
  IN  IF t >= zig_r_max THEN t - Pow2(half_size) ELSE t

KN(index) == IF index = 1 THEN 0 ELSE zig_r_max - 1
FN(index) == zig_r_max * (zig_layers - index)
\* exp(-0.5 * x * x) for x = r * WN[index], in the units of FN
ExpNegHalfSquare(r, index) == FN(index) + zig_r_max - Abs(r)

\* the tail loop: do { xx, yy } while (yy + yy < xx * xx), on the transient rng
RECURSIVE ZigTail(_)
ZigTailXY(c1, c2) ==
  IF 2 * c2.out * Pow2(float64_digits) < c1.out * c1.out
  THEN IF c2.u.n >= MaxWords THEN [xx |-> 0, stuck |-> TRUE]
       ELSE ZigTail(c2.u)
  ELSE [xx |-> c1.out, stuck |-> FALSE]

ZigTailX(c1) == ZigTailXY(c1, canonical(c1.u))

ZigTail(rng) == ZigTailX(canonical(rng))

ZigValue(r, index, tail, xx) == [r |-> r, index |-> index, tail |-> tail, xx |-> xx]

\* the sample of the tail: 0 < r ? R + xx : -(R + xx)
TailOf(d, r, index, t) ==
  [u |-> d.u,
   out |-> ZigValue(IF 0 < r THEN 1 ELSE -1, index, TRUE, t.xx),
   stuck |-> t.stuck]

\* std::abs(r) < KN[index]
AbsBelow(r, index, below_kn) ==
  IF r = -zig_r_max THEN below_kn ELSE Abs(r) < KN(index)

\* FN[index] + canonical(rng) * (FN[index - 1] - FN[index]) < exp(-0.5 * x * x)
InWedge(c, r, index) ==
  FN(index) * Pow2(float64_digits) + c.out * (FN(index - 1) - FN(index))
    < ExpNegHalfSquare(r, index) * Pow2(float64_digits)

RECURSIVE ziggurat(_, _)
\* A sampler that takes the randomness of the wedge test from the outer
\* source and not from a transient generator seeded with the word.
ZigguratAtOuterWedge(d, r, index, below_kn) ==
  IF AbsBelow(r, index, below_kn)
  THEN [u |-> d.u, out |-> ZigValue(r, index, FALSE, 0), stuck |-> FALSE]
  ELSE IF index = 0
  THEN TailOf(d, r, index, ZigTail(XoshiroSource(d.out)))
  ELSE IF InWedge(CanonicalOf(Draw(d.u)), r, index)
  THEN [u |-> CanonicalOf(Draw(d.u)).u, out |-> ZigValue(r, index, FALSE, 0),
        stuck |-> FALSE]
  ELSE IF d.u.n + 1 >= MaxWords
  THEN [u |-> d.u, out |-> ZigValue(0, 0, FALSE, 0), stuck |-> TRUE]
  ELSE ziggurat(CanonicalOf(Draw(d.u)).u, below_kn)

ZigguratAt(d, r, index, below_kn) ==
  IF AbsBelow(r, index, below_kn)
  THEN [u |-> d.u, out |-> ZigValue(r, index, FALSE, 0), stuck |-> FALSE]
  ELSE IF index = 0
  THEN TailOf(d, r, index, ZigTail(XoshiroSource(d.out)))
  ELSE IF InWedge(canonical(XoshiroSource(d.out)), r, index)
  THEN [u |-> d.u, out |-> ZigValue(r, index, FALSE, 0), stuck |-> FALSE]
  ELSE IF d.u.n >= MaxWords
  THEN [u |-> d.u, out |-> ZigValue(0, 0, FALSE, 0), stuck |-> TRUE]
  ELSE ziggurat(d.u, below_kn)

ZigguratOf(d, below_kn) ==
  ZigguratAt(d, ZigR(d.out), d.out % zig_layers, below_kn)

\* A sampler that throws the first word of every pass away.
ziggurat_second_word(u, below_kn) == ZigguratOf(Draw(Draw(u).u), below_kn)

\* NormalDistribution::ziggurat(urng)
ziggurat(u, below_kn) == ZigguratOf(Draw(u), below_kn)

\* ziggurat(urng) * stddev() + mean()
NormalOf64(z, d) ==
  [u |-> z.u,
   out |-> [z |-> z.out, stddev |-> d.stddev, mean |-> d.mean],
   stuck |-> z.stuck]

\* NormalDistribution::operator()(urng)
Normal(d, u) == NormalOf64(ziggurat(u, d.below_kn), d)

\* distribution_(urng)
Sample(d, u) ==
  CASE d.kind = "uniform_int" -> UniformInt(d, u)
    [] d.kind = "uniform_real" -> UniformReal(d, u)
    [] d.kind = "exponential" -> Exponential(d, u)
    [] OTHER -> Normal(d, u)

(***************************************************************************)
(* State.  eng, dist and position are the program's state: the engine, and *)
(* for the composite its distribution and position_.  The rest records the *)
(* calls made, so that properties of runs can be stated on states.         *)
(***************************************************************************)
VARIABLES
  eng,       \* the engine (of the composite, or on its own)
  dist,      \* the composite's distribution_; NoDist for a bare engine
  position,  \* the composite's position_
  seedv,     \* the seed last given to seed()
  net,       \* draws forward minus draws backward since seed()
  fresh,     \* no draw was made since seed()
  trail,     \* the draws of the current run in one direction, not yet undone
  tdir,      \* direction of the draws on the trail: "next" or "prev"
  popping,   \* the run has turned round and is undoing the trail
  base,      \* "seed" when the trail started at the freshly seeded state
  chk,       \* how the last undoing draw compared with the draw it undoes
  scalar,    \* only scalar next() and previous() were called since seed()
  last,      \* the last operation and what it returned
  twin,      \* a second generator given the same calls; NoTwin when there is one
  polar      \* the members of a ReversiblePolar beside urng_; NoPolar without one

vars == <<eng, dist, position, seedv, net, fresh, trail, tdir, popping, base,
          chk, scalar, last, twin, polar>>

NoDist == [kind |-> "none"]
NoChk == [valid |-> FALSE, outOk |-> TRUE, stOk |-> TRUE, n |-> 0]
NoLast == [op |-> "none"]
NoTwin == [paired |-> FALSE]
NoPolar == [built |-> FALSE]
Seeds == 0 .. MaxSeed

\* Bookkeeping of one scalar draw in direction d that took the generator
\* from pre to post and returned out.  A draw against the direction of the
\* trail undoes its last draw and is compared with it; a draw that resumes
\* the direction after undoing starts a new trail.
Track(d, pre, post, out) ==
  /\ fresh' = FALSE
  /\ twin' = twin
  /\ polar' = polar
  /\ IF trail # <<>> /\ d # tdir
     THEN LET top == trail[Len(trail)]
          IN  /\ trail' = SubSeq(trail, 1, Len(trail) - 1)
              /\ popping' = TRUE
              /\ UNCHANGED <<tdir, base>>
              /\ chk' = [valid |-> TRUE,
                         outOk |-> out = top.out,
                         stOk |-> post = top.pre,
                         n |-> chk.n + 1]
     ELSE IF trail # <<>> /\ ~popping
     THEN /\ trail' = Append(trail, [pre |-> pre, out |-> out])
          /\ UNCHANGED <<tdir, popping, base>>
          /\ chk' = NoChk
     ELSE /\ trail' = <<[pre |-> pre, out |-> out]>>
          /\ tdir' = d
          /\ popping' = FALSE
          /\ base' = IF fresh THEN "seed" ELSE "other"
          /\ chk' = NoChk

Untracked ==
  /\ fresh' = FALSE
  /\ twin' = twin
  /\ polar' = polar
  /\ trail' = <<>>
  /\ tdir' = "next"
  /\ popping' = FALSE
  /\ base' = "other"
  /\ chk' = NoChk

AfterSeed(sd) ==
  /\ seedv' = sd
  /\ net' = 0
  /\ fresh' = TRUE
  /\ trail' = <<>>
  /\ tdir' = "next"
  /\ popping' = FALSE
  /\ base' = "seed"
  /\ chk' = NoChk
  /\ scalar' = TRUE
  /\ twin' = twin
  /\ polar' = polar

(***************************************************************************)
(* ReversibleRNG (src/src/reverse.h).  A composite value is                *)
(* [engine_, distribution_, position_]; each operation gives the composite *)
(* after the call, the value returned and whether the call got stuck.      *)
(***************************************************************************)
Rng == [engine_ |-> eng, distribution_ |-> dist, position_ |-> position]

\* a draw that forgets to count.
DrawnNoCount(g, r, step) ==
  [g |-> [g EXCEPT !.engine_ = r.u.e],
   out |-> r.out, stuck |-> r.stuck, words |-> r.u.n]

\* the composite after a draw r of the distribution that moved position_ by
\* step, with the value drawn
Drawn(g, r, step) ==
  [g |-> [g EXCEPT !.engine_ = r.u.e, !.position_ = g.position_ + step],
   out |-> r.out, stuck |-> r.stuck, words |-> r.u.n]

\* ReversibleRNG::next(): position_++; return distribution_(engine_), and
\* ReversibleRNG::previous(): position_--; return distribution_(reversed)
\* for reversed = ReversedEngine(engine_)
RngCall(g, backward) ==
  Drawn(g,
        Sample(g.distribution_,
               IF backward THEN ReversedSource(g.engine_)
               ELSE ForwardSource(g.engine_)),
        IF backward THEN -1 ELSE 1)

RngNext(g) == RngCall(g, FALSE)
RngPrevious(g) == RngCall(g, TRUE)

\* std::generate over values[lo], values[lo + step], ... (count elements)
RECURSIVE Generate(_, _, _, _, _, _, _)
\* *first++ = gen()
Generated(r, values, at, step, count, backward, stuck) ==
  Generate(r.g, [values EXCEPT ![at] = r.out], at + step, step, count - 1,
           backward, stuck \/ r.stuck)

Generate(g, values, at, step, count, backward, stuck) ==
  IF count = 0 THEN [g |-> g, out |-> values, stuck |-> stuck]
  ELSE Generated(RngCall(g, backward), values, at, step, count, backward, stuck)

\* std::vector<result_type> values(N)
Values(N) == [i \in 1 .. N |-> 0]

\* next(N) that fills the vector from the back.
NextVectorReversed(g, N) == Generate(g, Values(N), N, -1, N, FALSE, FALSE)

\* next(N): std::generate(values.begin(), values.end(), next); values[i] of
\* the source is out[i + 1]
NextVector(g, N) == Generate(g, Values(N), 1, 1, N, FALSE, FALSE)

\* previous(N): std::generate(values.rbegin(), values.rend(), previous)
PreviousVector(g, N) == Generate(g, Values(N), N, -1, N, TRUE, FALSE)

\* get(index_sequence<0 .. N-1>, values): std::make_tuple(values[Is]...)
Get(N, values) == [i \in 1 .. N |-> values[i]]

\* next<N>() and previous<N>()
AsTuple(N, r) == [r EXCEPT !.out = Get(N, r.out)]
NextTuple(g, N) == AsTuple(N, NextVector(g, N))
PreviousTuple(g, N) == AsTuple(N, PreviousVector(g, N))

\* discard(z): for (; z != 0; --z) (*this)()
RECURSIVE RngDiscard(_, _, _)
RngDiscarded(r, z, stuck) == RngDiscard(r.g, z - 1, stuck \/ r.stuck)

RngDiscard(g, z, stuck) ==
  IF z = 0 THEN [g |-> g, stuck |-> stuck]
  ELSE RngDiscarded(RngNext(g), z, stuck)

\* A seed that leaves position_ as it was.
RngSeedKeepsPosition(g, sd) ==
  [g EXCEPT !.engine_ = EngineSeed(g.engine_.kind, sd)]

\* A seed whose reset() puts the parameters back to those of the default
\* constructor.
RngSeedResetsParameters(g, sd) ==
  [g EXCEPT !.engine_ = EngineSeed(g.engine_.kind, sd), !.position_ = 0,
            !.distribution_ =
              CASE g.distribution_.kind = "uniform_int" ->
                     [g.distribution_ EXCEPT !.a = 0]
                [] g.distribution_.kind = "uniform_real" ->
                     [g.distribution_ EXCEPT !.a = 0, !.b = 1]
                [] g.distribution_.kind = "exponential" ->
                     [g.distribution_ EXCEPT !.lambda = 1]
                [] g.distribution_.kind = "normal" ->
                     [g.distribution_ EXCEPT !.mean = 0, !.stddev = 1]
                [] OTHER -> g.distribution_]

\* seed(sd): engine_.seed(sd); distribution_.reset(); position_ = 0
RngSeed(g, sd) ==
  [g EXCEPT !.engine_ = EngineSeed(g.engine_.kind, sd), !.position_ = 0]

\* operator== of ReversibleRNG
RngEqual(l, r) ==
  /\ EngineEqual(l.engine_, r.engine_)
  /\ l.distribution_ = r.distribution_
  /\ l.position_ = r.position_

(***************************************************************************)
(* Spec: the composite under its operations.                               *)
(***************************************************************************)
\* Largest N of a bulk draw and of discard, and the furthest positions the
\* composite is taken forward and backward.
MaxBulk == 3
MaxAhead == 2
MaxBehind == 4

UniformIntDist(type, a, b) == [kind |-> "uniform_int", type |-> type, a |-> a, b |-> b]
UniformRealDist(type, a, b) ==
  [kind |-> "uniform_real", type |-> type, a |-> a, b |-> b]
ExponentialDist(lambda) == [kind |-> "exponential", lambda |-> lambda]
NormalDist(mean, stddev, below_kn) ==
  [kind |-> "normal", mean |-> mean, stddev |-> stddev, below_kn |-> below_kn]

\* The instantiations the model runs: every engine under a distribution that
\* rejects words and under one that does not, and each sampling path of the
\* integer distribution.
Generators ==
  {[engine |-> "pcg64", dist |-> d] :
     d \in {UniformIntDist("int", -1, 1),
            UniformIntDist("ulong", 0, TypeMax("ulong")),
            UniformRealDist("double", -2, 2), ExponentialDist(1),
            NormalDist(0, 1, FALSE), NormalDist(0, 1, TRUE)}}
  \cup {[engine |-> "mt", dist |-> d] :
     d \in {UniformRealDist("double", -2, 2), NormalDist(5, 2, FALSE)}}
  \cup {[engine |-> "pcg32", dist |-> d] :
     d \in {UniformIntDist("int", -1, 1),
            UniformIntDist("ulong", 0, TypeMax("ulong")),
            UniformRealDist("double", -2, 2)}}
  \cup {[engine |-> "pcg64_fast", dist |-> UniformIntDist("long", -2, 2)],
        [engine |-> "pcg64_cm", dist |-> ExponentialDist(2)]}

\* ReversibleRNG(args...): the distribution from args, the engine seeded,
\* position_ 0
Init ==
  /\ \E c \in Generators, sd \in Seeds :
       /\ eng = EngineSeed(c.engine, sd)
       /\ dist = c.dist
       /\ seedv = sd
  /\ position = 0
  /\ net = 0
  /\ fresh = TRUE
  /\ trail = <<>>
  /\ tdir = "next"
  /\ popping = FALSE
  /\ base = "seed"
  /\ chk = NoChk
  /\ scalar = TRUE
  /\ last = NoLast
  /\ twin = NoTwin
  /\ polar = NoPolar

Install(g) ==
  /\ eng' = g.engine_
  /\ position' = g.position_
  /\ dist' = g.distribution_

\* rng.seed(sd)
DoSeed ==
  /\ \E sd \in Seeds :
       /\ Install(RngSeed(Rng, sd))
       /\ AfterSeed(sd)
  /\ last' = [op |-> "seed"]

\* a scalar call op that went as r
Scalar(op, r) ==
  /\ ~r.stuck
  /\ Install(r.g)
  /\ Track(IF op = "next" THEN "next" ELSE "prev", Rng, r.g, r.out)
  /\ last' = [op |-> op, ret |-> r.out, words |-> r.words]
  /\ UNCHANGED <<seedv, scalar>>

\* rng.next()
DoNext ==
  /\ net < MaxAhead
  /\ Scalar("next", RngNext(Rng))
  /\ net' = net + 1

\* rng.previous()
DoPrevious ==
  /\ net > -MaxBehind
  /\ Scalar("previous", RngPrevious(Rng))
  /\ net' = net - 1

\* what the bulk draw before this one returned, when this one undoes it
Undoes(op, N) ==
  IF last.op = op /\ last.n = N
  THEN [valid |-> TRUE, ret |-> last.ret, pre |-> last.pre]
  ELSE [valid |-> FALSE, ret |-> <<>>, pre |-> Rng]

Bulk(op, N, r, undoes) ==
  /\ ~r.stuck
  /\ Install(r.g)
  /\ Untracked
  /\ scalar' = FALSE
  /\ last' = [op |-> op, n |-> N, ret |-> r.out, pre |-> Rng, undoes |-> undoes]
  /\ UNCHANGED seedv

\* rng.next(N)
DoNextVector ==
  \E N \in 0 .. MaxBulk :
    /\ net + N <= MaxAhead
    /\ Bulk("next(N)", N, NextVector(Rng, N), Undoes("never", N))
    /\ net' = net + N

\* rng.previous(N)
DoPreviousVector ==
  \E N \in 0 .. MaxBulk :
    /\ net - N >= -MaxBehind
    /\ Bulk("previous(N)", N, PreviousVector(Rng, N), Undoes("next(N)", N))
    /\ net' = net - N

\* rng.next<N>()
DoNextTuple ==
  \E N \in 0 .. MaxBulk :
    /\ net + N <= MaxAhead
    /\ Bulk("next<N>", N, NextTuple(Rng, N), Undoes("never", N))
    /\ net' = net + N

\* rng.previous<N>()
DoPreviousTuple ==
  \E N \in 0 .. MaxBulk :
    /\ net - N >= -MaxBehind
    /\ Bulk("previous<N>", N, PreviousTuple(Rng, N), Undoes("next<N>", N))
    /\ net' = net - N

Discarded(z, r) ==
  /\ ~r.stuck
  /\ Install(r.g)
  /\ Untracked
  /\ scalar' = FALSE
  /\ last' = [op |-> "discard", n |-> z]
  /\ UNCHANGED seedv

\* rng.discard(z)
DoDiscard ==
  \E z \in 0 .. MaxBulk :
    /\ net + z <= MaxAhead
    /\ Discarded(z, RngDiscard(Rng, z, FALSE))
    /\ net' = net + z

Next ==
  \/ DoSeed
  \/ DoNext
  \/ DoPrevious
  \/ DoNextVector
  \/ DoPreviousVector
  \/ DoNextTuple
  \/ DoPreviousTuple
  \/ DoDiscard

Spec == Init /\ [][Next]_vars

(***************************************************************************)
(* SpecEngine: a reversible engine on its own.                             *)
(***************************************************************************)
EngineInit ==
  /\ \E kind \in EngineKinds, sd \in Seeds :
       /\ eng = EngineSeed(kind, sd)
       /\ seedv = sd
  /\ dist = NoDist
  /\ position = 0
  /\ net = 0
  /\ fresh = TRUE
  /\ trail = <<>>
  /\ tdir = "next"
  /\ popping = FALSE
  /\ base = "seed"
  /\ chk = NoChk
  /\ scalar = TRUE
  /\ last = NoLast
  /\ twin = NoTwin
  /\ polar = NoPolar

\* g.seed(sd)
EngineDoSeed ==
  /\ \E sd \in Seeds :
       /\ eng' = EngineSeed(eng.kind, sd)
       /\ AfterSeed(sd)
  /\ last' = [op |-> "seed"]
  /\ UNCHANGED <<dist, position>>

\* g.next()
EngineDoNext ==
  /\ net < MaxFwd
  /\ LET r == EngineNext(eng)
     IN  /\ eng' = r.eng
         /\ Track("next", eng, r.eng, r.out)
         /\ last' = [op |-> "next", ret |-> r.out]
  /\ net' = net + 1
  /\ UNCHANGED <<dist, position, seedv, scalar>>

\* g.previous()
EngineDoPrevious ==
  /\ net > -MaxBack
  /\ LET r == EnginePrevious(eng)
     IN  /\ eng' = r.eng
         /\ Track("prev", eng, r.eng, r.out)
         /\ last' = [op |-> "previous", ret |-> r.out]
  /\ net' = net - 1
  /\ UNCHANGED <<dist, position, seedv, scalar>>

\* Largest z of g.discard(z): more than two blocks of the Mersenne state.
MaxDiscard == 9

\* g.discard(z) on ReversibleMersenne
EngineDoDiscard ==
  /\ eng.kind = "mt"
  /\ \E z \in 0 .. MaxDiscard :
       /\ net + z <= MaxFwd
       /\ eng' = MtDiscard(eng, z)
       /\ last' = [op |-> "discard", n |-> z, pre |-> eng]
       /\ net' = net + z
  /\ Untracked
  /\ UNCHANGED <<dist, position, seedv, scalar>>

EngineStep ==
  \/ EngineDoSeed
  \/ EngineDoNext
  \/ EngineDoPrevious
  \/ EngineDoDiscard

SpecEngine == EngineInit /\ [][EngineStep]_vars

\* the engine after n calls of next()
RECURSIVE Advance(_, _)
Advance(e, n) == IF n <= 0 THEN e ELSE Advance(EngineNext(e).eng, n - 1)

IsPCG == eng.kind \in PCGKinds
IsMersenne == eng.kind = "mt"

\* C3: for ReversiblePCG in every configuration, each previous() that undoes
\* a next() returns the word that next() returned and puts the engine back
\* in the state that next() started from; so k calls of next() followed by
\* k calls of previous() return the words in reverse order and restore the
\* state the run started from.
C3_PcgRoundTrip ==
  (IsPCG /\ tdir = "next" /\ chk.valid) => (chk.outOk /\ chk.stOk)

\* Three draws of the mcg configuration (increment 0) undone, back at the start.
C3_Witness ==
  /\ eng.kind = "pcg64_fast" /\ tdir = "next" /\ chk.valid
  /\ chk.n >= 3 /\ trail = <<>>

\* C4: for ReversibleMersenne freshly seeded, N calls of next() followed by
\* N calls of previous() return the forward outputs in reverse order, also
\* when N exceeds the block so that the run twists forward and untwists back.
C4_MersenneRoundTrip ==
  (IsMersenne /\ base = "seed" /\ tdir = "next" /\ chk.valid) => chk.outOk

\* More draws than a block holds were undone, back to the first one.
C4_Witness ==
  /\ IsMersenne /\ base = "seed" /\ tdir = "next" /\ chk.valid
  /\ chk.n > state_size /\ trail = <<>>

\* C5: after any interleaving of next() and previous() with net count
\* n >= 0, the engine compares equal to a fresh engine seeded alike and
\* advanced by n calls of next().
C5_NetCountState ==
  net >= 0 => EngineEqual(eng, Advance(EngineSeed(eng.kind, seedv), net))

\* C7: k calls of previous() from the freshly seeded state followed by k
\* calls of next() return the backward outputs in reverse order and leave
\* the engine equal to the freshly seeded state.
C7_BackwardFirstRoundTrip ==
  (base = "seed" /\ tdir = "prev" /\ chk.valid) =>
    (chk.outOk /\ (trail = <<>> => chk.stOk))

(***************************************************************************)
(* The composite's claims, under Spec.                                     *)
(***************************************************************************)
\* the composite as seed(seedv) leaves it
Seeded == RngSeed(Rng, seedv)

\* n scalar next() calls from g: the values in call order and the composite
\* they leave
RECURSIVE ScalarNexts(_, _)
ScalarNexts(g, n) ==
  IF n = 0 THEN [g |-> g, out |-> <<>>]
  ELSE LET r == ScalarNexts(g, n - 1)
           d == RngNext(r.g)
       IN  [g |-> d.g, out |-> Append(r.out, d.out)]

\* n scalar previous() calls from g, likewise
RECURSIVE ScalarPrevious(_, _)
ScalarPrevious(g, n) ==
  IF n = 0 THEN [g |-> g, out |-> <<>>]
  ELSE LET r == ScalarPrevious(g, n - 1)
           d == RngPrevious(r.g)
       IN  [g |-> d.g, out |-> Append(r.out, d.out)]

\* the sample at index p of the sequence of the seeded composite: for p >= 0
\* the (p+1)-th of a run of next() calls, for p < 0 the (-p)-th of a run of
\* previous() calls
SeqAt(p) ==
  IF p >= 0 THEN ScalarNexts(Seeded, p + 1).out[p + 1]
  ELSE ScalarPrevious(Seeded, -p).out[-p]

\* C1: in a composite, when N scalar next() calls are followed by scalar
\* previous() calls, each previous() returns the sample of the next() call it
\* undoes, so the N samples come back in reverse order, whatever words the
\* distribution rejected on the way.
C1_CompositeReverseOrder ==
  (tdir = "next" /\ chk.valid) => chk.outOk

\* C2: in a composite, each previous() that undoes a next() leaves the
\* generator (engine and position) equal to what it was before that next(),
\* so after N of each it equals its state before the draws.
C2_CompositeStateRestored ==
  (tdir = "next" /\ chk.valid) => chk.stOk

\* C6: with only scalar calls since seed(), next() called at position p
\* returns seq[p] and previous() called at position p returns seq[p-1], where
\* seq is fixed by the seed and the distribution.
C6_FixedSequence ==
  scalar =>
    /\ last.op = "next" => last.ret = SeqAt(position - 1)
    /\ last.op = "previous" => last.ret = SeqAt(position)

C9_BulkParity ==
  last.op = "next(N)" =>
    LET r == ScalarNexts(last.pre, last.n)
    IN  /\ last.ret = r.out
        /\ RngEqual(Rng, r.g)

C9_Witness ==
  /\ last.op = "next(N)"
  /\ last.n = 3
  /\ last.ret[1] # last.ret[3]
  /\ last.ret = ScalarNexts(last.pre, 3).out

\* C10: previous(N) stores its j-th scalar previous() draw at index N-1-j; the
\* tuple forms carry the values of the vector forms in the same order; and
\* previous(N) right after next(N) returns the vector next(N) returned.
C10_PreviousVector ==
  /\ last.op \in {"previous(N)", "previous<N>"} =>
       LET r == ScalarPrevious(last.pre, last.n)
       IN  /\ \A j \in 0 .. last.n - 1 : last.ret[last.n - j] = r.out[j + 1]
           /\ RngEqual(Rng, r.g)
  /\ last.op = "next<N>" => last.ret = ScalarNexts(last.pre, last.n).out
  /\ last.op \in {"previous(N)", "previous<N>"} =>
       (last.undoes.valid => last.ret = last.undoes.ret)

(***************************************************************************)
(* discard, under SpecEngine.                                              *)
(***************************************************************************)
\* the composites over the engine e at position p, one per distribution the
\* model runs over that kind of engine
CompositesOver(e, p) ==
  {[engine_ |-> e, distribution_ |-> c.dist, position_ |-> p] :
     c \in {x \in Generators : x.engine = e.kind}}

\* discard(z) on the composite g against z scalar next() calls
DiscardAsNexts(g, d, z) ==
  \/ d.stuck
  \/ /\ RngEqual(d.g, ScalarNexts(g, z).g)
     /\ d.g.position_ = g.position_ + z

\* C12: discard(N) leaves ReversibleMersenne equal to the engine after N
\* calls of next() from the same state, for N = 0 and for N spanning several
\* twists; discard(N) on a composite leaves it equal to the composite after N
\* calls of next(), with the position advanced by N.
C12_DiscardEquivalence ==
  /\ last.op = "discard" => MtEqual(eng, Advance(last.pre, last.n))
  /\ \A g \in CompositesOver(eng, net) : \A z \in 0 .. MaxBulk :
       DiscardAsNexts(g, RngDiscard(g, z, FALSE), z)

\* A discard from inside a block that twisted at least twice.
C12_Witness ==
  /\ last.op = "discard"
  /\ last.n > 2 * state_size
  /\ last.pre.pos_ \in 1 .. state_size - 1
  /\ eng.state_ # last.pre.state_

(***************************************************************************)
(* SpecTwins: two composites with equal distribution parameters.  The      *)
(* first is eng, dist, position; the second is twin.g.  Calls are made on  *)
(* the first alone until both are seeded with the same value (twin.paired), *)
(* and on both alike from then on.                                         *)
(***************************************************************************)
\* ReversibleRNG(args...) twice: the constructor seeds each from a source of
\* its own
TwinsInit ==
  /\ \E c \in Generators, sd \in Seeds, other \in Seeds :
       /\ eng = EngineSeed(c.engine, sd)
       /\ dist = c.dist
       /\ seedv = sd
       /\ twin = [paired |-> FALSE,
                  g |-> [engine_ |-> EngineSeed(c.engine, other),
                         distribution_ |-> c.dist, position_ |-> 0],
                  ret |-> <<>>]
  /\ position = 0
  /\ net = 0
  /\ fresh = TRUE
  /\ trail = <<>>
  /\ tdir = "next"
  /\ popping = FALSE
  /\ base = "seed"
  /\ chk = NoChk
  /\ scalar = TRUE
  /\ last = NoLast
  /\ polar = NoPolar

\* the positions the twins are kept within
InReach(p) == -MaxBehind <= p /\ p <= MaxAhead

\* a call that went as r on the first composite alone
Solo(op, r) ==
  /\ ~r.stuck
  /\ InReach(r.g.position_)
  /\ Install(r.g)
  /\ last' = [op |-> op, ret |-> r.out]
  /\ UNCHANGED <<twin, polar, seedv, net, fresh, trail, tdir, popping, base, chk, scalar>>

\* first.next(), before the twins are seeded alike
SoloNext ==
  /\ ~twin.paired
  /\ Solo("next", RngNext(Rng))

\* first.previous(), before the twins are seeded alike
SoloPrevious ==
  /\ ~twin.paired
  /\ Solo("previous", RngPrevious(Rng))

\* the same call on both: it went as r on the first and as t on the second
Both(op, r, t) ==
  /\ ~r.stuck /\ ~t.stuck
  /\ InReach(r.g.position_) /\ InReach(t.g.position_)
  /\ Install(r.g)
  /\ last' = [op |-> op, ret |-> r.out]
  /\ twin' = [twin EXCEPT !.g = t.g, !.ret = t.out]
  /\ UNCHANGED <<seedv, net, fresh, trail, tdir, popping, base, chk, scalar, polar>>

\* first.seed(sd); second.seed(sd)
BothSeed ==
  /\ \E sd \in Seeds :
       /\ Install(RngSeed(Rng, sd))
       /\ twin' = [paired |-> TRUE, g |-> RngSeed(twin.g, sd), ret |-> <<>>]
       /\ seedv' = sd
  /\ last' = [op |-> "seed", ret |-> <<>>]
  /\ UNCHANGED <<net, fresh, trail, tdir, popping, base, chk, scalar, polar>>

\* next() on both
BothNext ==
  /\ twin.paired
  /\ Both("next", RngNext(Rng), RngNext(twin.g))

\* previous() on both
BothPrevious ==
  /\ twin.paired
  /\ Both("previous", RngPrevious(Rng), RngPrevious(twin.g))

\* next(N) on both
BothNextVector ==
  /\ twin.paired
  /\ \E N \in 0 .. MaxBulk :
       Both("next(N)", NextVector(Rng, N), NextVector(twin.g, N))

\* previous(N) on both
BothPreviousVector ==
  /\ twin.paired
  /\ \E N \in 0 .. MaxBulk :
       Both("previous(N)", PreviousVector(Rng, N), PreviousVector(twin.g, N))

\* discard returns nothing
Silent(r) == [g |-> r.g, out |-> <<>>, stuck |-> r.stuck]

\* discard(z) on both
BothDiscard ==
  /\ twin.paired
  /\ \E z \in 0 .. MaxBulk :
       Both("discard", Silent(RngDiscard(Rng, z, FALSE)),
            Silent(RngDiscard(twin.g, z, FALSE)))

TwinsStep ==
  \/ SoloNext
  \/ SoloPrevious
  \/ BothSeed
  \/ BothNext
  \/ BothPrevious
  \/ BothNextVector
  \/ BothPreviousVector
  \/ BothDiscard

SpecTwins == TwinsInit /\ [][TwinsStep]_vars

\* C11: seed(s) leaves the composite as a composite constructed and seeded
\* with s, at position 0, whatever was drawn before; two composites with
\* equal distribution parameters seeded with the same value compare equal,
\* and keep comparing equal and returning equal values under the same calls.
C11_SeedReproducible ==
  /\ last.op = "seed" =>
       /\ EngineEqual(eng, EngineSeed(eng.kind, seedv))
       /\ position = 0
  /\ twin.paired =>
       /\ RngEqual(Rng, twin.g)
       /\ last.ret = twin.ret

\* Twins that were apart, seeded alike and drawn from alike since.
C11_Witness ==
  /\ twin.paired
  /\ last.op = "previous(N)" /\ Len(last.ret) = 2
  /\ position = -1

(***************************************************************************)
(* operator<< and operator>>.  A text is a sequence of characters.  The    *)
(* writers put numbers in decimal, real parameters in scientific notation  *)
(* with max_digits10 digits after the point; the readers skip white space, *)
(* take the longest run of characters that makes a number and set the fail *)
(* bit when there is none or when it does not fit the type.  Real          *)
(* parameters are integers here, so the decimal exponent is never negative. *)
(***************************************************************************)
DigitChars == <<"0", "1", "2", "3", "4", "5", "6", "7", "8", "9">>
IsDigit(c) == \E i \in 1 .. 10 : DigitChars[i] = c
DigitValue(c) == (CHOOSE i \in 1 .. 10 : DigitChars[i] = c) - 1
space == " "
Pow10(n) == 10 ^ n

RECURSIVE FormatNat(_)
FormatNat(n) ==
  IF n < 10 THEN <<DigitChars[n + 1]>>
  ELSE Append(FormatNat(n \div 10), DigitChars[(n % 10) + 1])

\* os << v for v of an integer type
FormatInt(v) == IF v < 0 THEN <<"-">> \o FormatNat(-v) ELSE FormatNat(v)

\* std::numeric_limits<result_type>::max_digits10: ceil(1 + digits * log10(2))
max_digits10(type) == (RealBits(type) * 30103) \div 100000 + 2

RECURSIVE Log10Floor(_)
Log10Floor(n) == IF n < 10 THEN 0 ELSE 1 + Log10Floor(n \div 10)

\* n / d rounded to the nearest integer, ties to even
RoundDiv(n, d) ==
  IF 2 * (n % d) > d \/ (2 * (n % d) = d /\ (n \div d) % 2 = 1)
  THEN n \div d + 1 ELSE n \div d

\* the precision + 1 digits of n > 0 as an integer, and its decimal exponent
SciOf(m, e, precision) ==
  IF m >= Pow10(precision + 1) THEN [m |-> m \div 10, e |-> e + 1]
  ELSE [m |-> m, e |-> e]

SciAt(n, e, precision) ==
  SciOf(IF precision >= e THEN n * Pow10(precision - e)
        ELSE RoundDiv(n, Pow10(e - precision)),
        e, precision)

Sci(n, precision) ==
  IF n = 0 THEN [m |-> 0, e |-> 0] ELSE SciAt(n, Log10Floor(n), precision)

\* the digits of m, padded on the left to n digits
PadLeft(digits, n) ==
  [i \in 1 .. Max(n, Len(digits)) |->
     IF i <= n - Len(digits) THEN "0" ELSE digits[i - Max(n - Len(digits), 0)]]

\* d.ddde+xx
SciText(digits, e, precision) ==
  <<digits[1]>>
    \o (IF precision > 0 THEN <<".">> \o SubSeq(digits, 2, precision + 1) ELSE <<>>)
    \o <<"e", "+">> \o PadLeft(FormatNat(e), 2)

FormatSci(s, precision) ==
  SciText(PadLeft(FormatNat(s.m), precision + 1), s.e, precision)

\* os << v under scientific with the given precision
FormatRealAt(v, precision) ==
  IF v < 0 THEN <<"-">> \o FormatSci(Sci(-v, precision), precision)
  ELSE FormatSci(Sci(v, precision), precision)

\* A writer of real parameters with one significant digit.
FormatRealOneDigit(v, type) == FormatRealAt(v, 0)

\* os.precision(max_digits10); os << v for v of a floating-point type
FormatReal(v, type) == FormatRealAt(v, max_digits10(type))

\* the real type of a distribution's parameters
ParamType(d) == IF d.kind = "uniform_real" THEN d.type ELSE "double"

\* operator<< of the distributions
FormatDist(d) ==
  CASE d.kind = "uniform_int" -> FormatInt(d.a) \o <<space>> \o FormatInt(d.b)
    [] d.kind = "uniform_real" ->
         FormatReal(d.a, d.type) \o <<space>> \o FormatReal(d.b, d.type)
    [] d.kind = "exponential" -> FormatReal(d.lambda, "double")
    [] OTHER ->
         FormatReal(d.mean, "double") \o <<space>> \o FormatReal(d.stddev, "double")

\* for (state : state_) os << state << space
RECURSIVE FormatWords(_, _)
FormatWords(st, i) ==
  IF i >= state_size THEN <<>>
  ELSE FormatNat(st[i]) \o <<space>> \o FormatWords(st, i + 1)

\* operator<< of ReversibleMersenne: the words of state_, then pos_
FormatMt(e) == FormatWords(e.state_, 0) \o FormatNat(e.pos_)

\* operator<< of the PCG engine: multiplier, increment, state
FormatPcg(e) ==
  FormatNat(multiplier(e.kind)) \o <<space>> \o FormatNat(increment(e.kind))
    \o <<space>> \o FormatNat(e.state)

FormatEngine(e) == IF e.kind = "mt" THEN FormatMt(e) ELSE FormatPcg(e)

\* operator<< of ReversibleRNG
FormatRng(g) ==
  FormatEngine(g.engine_) \o <<space>> \o FormatDist(g.distribution_)
    \o <<space>> \o FormatInt(g.position_)

\* a stream over text, read up to at; value is what the last read stored
Reader(text) == [text |-> text, at |-> 1, fail |-> FALSE, value |-> 0]

HasChar(text, at, c) == at <= Len(text) /\ text[at] = c

RECURSIVE SkipWs(_, _)
SkipWs(text, at) ==
  IF HasChar(text, at, space) THEN SkipWs(text, at + 1) ELSE at

\* the digits from at on: their value after acc, their number, the place after
RECURSIVE ReadDigits(_, _, _, _)
ReadDigits(text, at, acc, n) ==
  IF at <= Len(text) /\ IsDigit(text[at])
  THEN ReadDigits(text, at + 1, acc * 10 + DigitValue(text[at]), n + 1)
  ELSE [at |-> at, value |-> acc, n |-> n]

Signed(neg, v) == IF neg THEN -v ELSE v

\* is >> v for v of an integer type of range lo .. hi holding old
ReadIntDigits(rd, old, neg, d, lo, hi) ==
  IF rd.fail THEN [rd EXCEPT !.value = old]
  ELSE IF d.n = 0 THEN [rd EXCEPT !.fail = TRUE, !.value = 0]
  ELSE IF Signed(neg, d.value) < lo \/ Signed(neg, d.value) > hi
  THEN [rd EXCEPT !.at = d.at, !.fail = TRUE, !.value = IF neg THEN lo ELSE hi]
  ELSE [rd EXCEPT !.at = d.at, !.value = Signed(neg, d.value)]

ReadIntSigned(rd, old, at, neg, lo, hi) ==
  ReadIntDigits(rd, old, neg,
                ReadDigits(rd.text, IF neg THEN at + 1 ELSE at, 0, 0), lo, hi)

\* the sentry that meets the end of the text fails the stream and nothing is
\* stored
ReadIntFrom(rd, old, at, lo, hi) ==
  IF at > Len(rd.text) THEN [rd EXCEPT !.fail = TRUE, !.value = old]
  ELSE ReadIntSigned(rd, old, at, HasChar(rd.text, at, "-"), lo, hi)

\* An integer read that clears the fail bit.
ReadIntSwallowing(rd, old, lo, hi) ==
  [ReadIntFrom(rd, old, SkipWs(rd.text, rd.at), lo, hi) EXCEPT !.fail = FALSE]

ReadInt(rd, old, lo, hi) == ReadIntFrom(rd, old, SkipWs(rd.text, rd.at), lo, hi)

\* m * 10^k
Scale10(m, k) == IF k >= 0 THEN m * Pow10(k) ELSE RoundDiv(m, Pow10(-k))

\* is >> v for v of a floating-point type holding old: sign, digits, point,
\* digits, e, sign, digits; the value is rounded to the type
RealRead(rd, old, type, neg, mant, digits, nfrac, exp, at) ==
  IF rd.fail THEN [rd EXCEPT !.value = old]
  ELSE IF digits = 0 THEN [rd EXCEPT !.fail = TRUE, !.value = 0]
  ELSE [rd EXCEPT !.at = at,
                  !.value = RoundBits(Signed(neg, Scale10(mant, exp - nfrac)),
                                      RealBits(type))]

ReadRealExp(rd, old, type, neg, ip, fp, eneg, ep) ==
  IF ep.n = 0
  THEN RealRead(rd, old, type, neg, fp.value, ip.n + fp.n, fp.n, 0, fp.at)
  ELSE RealRead(rd, old, type, neg, fp.value, ip.n + fp.n, fp.n,
                Signed(eneg, ep.value), ep.at)

ReadRealExpSign(rd, old, type, neg, ip, fp, at) ==
  ReadRealExp(rd, old, type, neg, ip, fp, HasChar(rd.text, at, "-"),
              ReadDigits(rd.text,
                         IF HasChar(rd.text, at, "-") \/ HasChar(rd.text, at, "+")
                         THEN at + 1 ELSE at, 0, 0))

ReadRealFrac(rd, old, type, neg, ip, fp) ==
  IF HasChar(rd.text, fp.at, "e")
  THEN ReadRealExpSign(rd, old, type, neg, ip, fp, fp.at + 1)
  ELSE RealRead(rd, old, type, neg, fp.value, ip.n + fp.n, fp.n, 0, fp.at)

ReadRealInt(rd, old, type, neg, ip) ==
  ReadRealFrac(rd, old, type, neg, ip,
               IF HasChar(rd.text, ip.at, ".")
               THEN ReadDigits(rd.text, ip.at + 1, ip.value, 0)
               ELSE [at |-> ip.at, value |-> ip.value, n |-> 0])

ReadRealSigned(rd, old, type, at, neg) ==
  ReadRealInt(rd, old, type, neg,
              ReadDigits(rd.text, IF neg THEN at + 1 ELSE at, 0, 0))

ReadRealFrom(rd, old, type, at) ==
  IF at > Len(rd.text) THEN [rd EXCEPT !.fail = TRUE, !.value = old]
  ELSE ReadRealSigned(rd, old, type, at, HasChar(rd.text, at, "-"))

ReadReal(rd, old, type) == ReadRealFrom(rd, old, type, SkipWs(rd.text, rd.at))

\* A reading in progress: the stream rd and the instance g being read into.
\* is >> field for a field f of the distribution
IntoDist(p, f, rd) ==
  [rd |-> rd, g |-> [p.g EXCEPT !.distribution_[f] = rd.value]]

ReadIntParam(p, f) ==
  IntoDist(p, f,
           ReadInt(p.rd, p.g.distribution_[f], TypeMin(p.g.distribution_.type),
                   TypeMax(p.g.distribution_.type)))

ReadRealParam(p, f) ==
  IntoDist(p, f,
           ReadReal(p.rd, p.g.distribution_[f], ParamType(p.g.distribution_)))

\* operator>> of the distributions
ReadDist(p) ==
  CASE p.g.distribution_.kind = "uniform_int" ->
         ReadIntParam(ReadIntParam(p, "a"), "b")
    [] p.g.distribution_.kind = "uniform_real" ->
         ReadRealParam(ReadRealParam(p, "a"), "b")
    [] p.g.distribution_.kind = "exponential" -> ReadRealParam(p, "lambda")
    [] OTHER -> ReadRealParam(ReadRealParam(p, "mean"), "stddev")

\* is >> state for the word i of state_
IntoWord(p, i, rd) ==
  [rd |-> rd, g |-> [p.g EXCEPT !.engine_.state_[i] = rd.value]]

RECURSIVE ReadWords(_, _)
ReadWords(p, i) ==
  IF i >= state_size THEN p
  ELSE ReadWords(IntoWord(p, i, ReadInt(p.rd, p.g.engine_.state_[i], 0, word_max)),
                 i + 1)

IntoPos(p, rd) == [rd |-> rd, g |-> [p.g EXCEPT !.engine_.pos_ = rd.value]]

\* operator>> of ReversibleMersenne.  pos_ is an int, which holds every
\* position 0 .. state_size; the range of "long" stands for it here, the
\* model's "int" being narrower than state_size.
ReadMtPos(p) ==
  IntoPos(p, ReadInt(p.rd, p.g.engine_.pos_, TypeMin("long"), TypeMax("long")))

ReadMt(p) == ReadMtPos(ReadWords(p, 0))

\* operator>> of the PCG engine: the multiplier and the increment read are
\* compared with the engine's own, and the state is taken when they agree
PcgRead(p, m, i, s) ==
  IF s.fail \/ m.value # multiplier(p.g.engine_.kind)
       \/ i.value # increment(p.g.engine_.kind)
  THEN [rd |-> [s EXCEPT !.fail = TRUE], g |-> p.g]
  ELSE [rd |-> s, g |-> [p.g EXCEPT !.engine_.state = s.value]]

ReadPcgState(p, m, i) ==
  PcgRead(p, m, i, ReadInt(i, 0, 0, Pow2(itype_bits(p.g.engine_.kind)) - 1))

ReadPcgIncrement(p, m) ==
  ReadPcgState(p, m, ReadInt(m, 0, 0, Pow2(itype_bits(p.g.engine_.kind)) - 1))

ReadPcg(p) ==
  ReadPcgIncrement(p, ReadInt(p.rd, 0, 0, Pow2(itype_bits(p.g.engine_.kind)) - 1))

ReadEngine(p) == IF p.g.engine_.kind = "mt" THEN ReadMt(p) ELSE ReadPcg(p)

IntoPosition(p, rd) == [rd |-> rd, g |-> [p.g EXCEPT !.position_ = rd.value]]

\* is >> position_, a std::int64_t
ReadPosition(p) ==
  IntoPosition(p, ReadInt(p.rd, p.g.position_, TypeMin("long"), TypeMax("long")))

\* operator>> of ReversibleRNG into the instance g
ReadRng(text, g) ==
  ReadPosition(ReadDist(ReadEngine([rd |-> Reader(text), g |-> g])))

\* the default-constructed distribution of the kind of d
DefaultDist(d) ==
  CASE d.kind = "uniform_int" -> UniformIntDist(d.type, 0, TypeMax(d.type))
    [] d.kind = "uniform_real" -> UniformRealDist(d.type, 0, 1)
    [] d.kind = "exponential" -> ExponentialDist(1)
    [] OTHER -> NormalDist(0, 1, d.below_kn)

(***************************************************************************)
(* SpecSamples: scalar calls of the composite over every sampling path of  *)
(* the distributions, each call recorded with the composite it was made on. *)
(***************************************************************************)
\* Largest seed of a sampled generator and the furthest position either way.
MaxSampleSeed == 5
MaxOrbit == 6

SampleGenerators ==
  {[engine |-> "pcg64", dist |-> d] :
     d \in {UniformIntDist("ulong", 0, TypeMax("ulong")),
            UniformIntDist("long", TypeMin("long"), TypeMax("long")),
            UniformIntDist("long", 0, TypeMax("long")),
            UniformIntDist("long", TypeMin("long"), TypeMax("long") - 1),
            UniformIntDist("long", -2, 2), UniformIntDist("long", -3, -3),
            UniformIntDist("int", -1, 1),
            UniformRealDist("double", -2, 2), UniformRealDist("double", 1, 2),
            UniformRealDist("double", -10, 12),
            UniformRealDist("float", 0, 1), UniformRealDist("float", -2, 2),
            ExponentialDist(1), ExponentialDist(2),
            NormalDist(0, 1, FALSE), NormalDist(0, 1, TRUE)}}
  \cup {[engine |-> "pcg32", dist |-> d] :
     d \in {UniformIntDist("int", TypeMin("int"), TypeMax("int")),
            UniformIntDist("int", -1, 1), UniformIntDist("int", 2, 2),
            UniformIntDist("int", TypeMin("int"), 2),
            UniformIntDist("long", -2, 2),
            UniformIntDist("ulong", 0, TypeMax("ulong")),
            UniformIntDist("ulong", 0, Pow2(half_size)),
            UniformIntDist("long", TypeMin("long"), TypeMax("long") - 1),
            UniformRealDist("double", 1, 2), UniformRealDist("float", 0, 1),
            UniformRealDist("float", -2, 2)}}
  \cup {[engine |-> "mt", dist |-> d] :
     d \in {UniformIntDist("long", -2, 2),
            UniformIntDist("long", 0, TypeMax("long")),
            UniformRealDist("double", 0, 1), ExponentialDist(1)}}

SamplesInit ==
  /\ \E c \in SampleGenerators, sd \in 0 .. MaxSampleSeed :
       /\ eng = EngineSeed(c.engine, sd)
       /\ dist = c.dist
       /\ seedv = sd
  /\ position = 0
  /\ net = 0
  /\ fresh = TRUE
  /\ trail = <<>>
  /\ tdir = "next"
  /\ popping = FALSE
  /\ base = "seed"
  /\ chk = NoChk
  /\ scalar = TRUE
  /\ last = NoLast
  /\ twin = NoTwin
  /\ polar = NoPolar

\* a scalar call op of the composite that went as r
Sampled(op, r) ==
  /\ ~r.stuck
  /\ Install(r.g)
  /\ net' = r.g.position_
  /\ fresh' = FALSE
  /\ last' = [op |-> op, ret |-> r.out, words |-> r.words, pre |-> Rng]
  /\ UNCHANGED <<seedv, trail, tdir, popping, base, chk, scalar, twin, polar>>

\* rng.next()
SampleNext ==
  /\ position < MaxOrbit
  /\ Sampled("next", RngNext(Rng))

\* rng.previous()
SamplePrevious ==
  /\ position > -MaxOrbit
  /\ Sampled("previous", RngPrevious(Rng))

\* another instance of the type of g, on a seed of its own
Another(g, sd) ==
  [engine_ |-> EngineSeed(g.engine_.kind, sd),
   distribution_ |-> DefaultDist(g.distribution_), position_ |-> 0]

Streamed(text, r) ==
  last' = [op |-> "stream", text |-> text, ret |-> r.g, fail |-> r.rd.fail,
           rest |-> Len(text) + 1 - r.rd.at, pre |-> Rng]

\* std::stringstream ss; ss << rng1; ss >> rng2
SampleStream ==
  /\ last.op # "stream"
  /\ Streamed(FormatRng(Rng),
              ReadRng(FormatRng(Rng), Another(Rng, (seedv + 1) % (MaxSampleSeed + 1))))
  /\ UNCHANGED <<eng, dist, position, seedv, net, fresh, trail, tdir, popping,
                 base, chk, scalar, twin, polar>>

SamplesStep == SampleNext \/ SamplePrevious \/ SampleStream

SpecSamples == SamplesInit /\ [][SamplesStep]_vars

\* the last operation was a scalar call of the composite
Called == last.op \in {"next", "previous"}

\* the source the last call drew from
SourceOfLast ==
  IF last.op = "previous" THEN ReversedSource(last.pre.engine_)
  ELSE ForwardSource(last.pre.engine_)

\* the first word the last call drew
FirstWord == Draw(SourceOfLast)

InvSamplesType == Called => last.words >= 1

\* C14: every sample of the Ziggurat normal distribution, in either
\* direction and whatever branch it takes, consumes exactly one word of the
\* engine.
C14_NormalOneWord ==
  (Called /\ dist.kind = "normal") => last.words = 1

\* the engine range equals the range of the integer distribution
EqualRange ==
  /\ dist.kind = "uniform_int"
  /\ DistRange(dist, Max(result_bits(eng.kind), TypeBits(dist.type)))
       = Pow2(result_bits(eng.kind)) - 1

\* the value of result_type congruent to w + a modulo 2^bits
WordPlusA(w, d) ==
  CHOOSE v \in TypeMin(d.type) .. TypeMax(d.type) :
    (v - w - d.a) % Pow2(TypeBits(d.type)) = 0

\* what the one-word distributions make of the word w
OfOneWord(w) ==
  CASE dist.kind = "uniform_int" -> WordPlusA(w.out, dist)
    [] dist.kind = "uniform_real" ->
         UniformRealOf(w, dist, result_bits(eng.kind) = word_size).out
    [] OTHER -> ExponentialOf64(w, dist).out

\* C15: a sample of the uniform real distribution, of the exponential
\* distribution, and of the uniform integer distribution whose range equals
\* the engine's, draws exactly one word from the engine and is a function of
\* that word and the parameters; the integer sample is the word plus a.
C15_OneWordSamples ==
  (Called /\ (dist.kind \in {"uniform_real", "exponential"} \/ EqualRange))
    => /\ last.words = 1
       /\ EngineEqual(eng, FirstWord.u.e)
       /\ last.ret = OfOneWord(FirstWord)

C15_Witness ==
  /\ Called /\ last.op = "previous" /\ EqualRange
  /\ eng.kind = "pcg32" /\ last.ret < 0 /\ FirstWord.out < Pow2(half_size - 1)

\* C16: every sample of the uniform integer distribution lies in [a, b], on
\* the equal-range, Lemire, modulo and widening paths, forward and backward,
\* for negative a and for ranges wider than the signed result type holds.
C16_UniformIntInRange ==
  (Called /\ dist.kind = "uniform_int")
    => (last.ret \in Int /\ dist.a <= last.ret /\ last.ret <= dist.b)

C16_Witness ==
  /\ Called /\ last.op = "previous" /\ eng.kind = "pcg32"
  /\ dist = UniformIntDist("int", TypeMin("int"), 2)
  /\ dist.b - dist.a + 1 > TypeMax("int")
  /\ last.words > 1 /\ last.ret < 0

\* C17: every sample of the uniform real distribution with a < b, of result
\* type float or double, over a 32-bit or a 64-bit engine, is at least a and
\* less than b.
C17_UniformRealInRange ==
  (Called /\ dist.kind = "uniform_real")
    => /\ dist.a * Pow2(last.ret.digits) <= last.ret.num
       /\ last.ret.num < dist.b * Pow2(last.ret.digits)

\* the canonical numerator of the first word of the last call, the bits
\* dropped from the word, and the bits kept
CanonicalK ==
  IF result_bits(eng.kind) = word_size THEN float64(FirstWord.out)
  ELSE float32(FirstWord.out)
CanonicalDrop ==
  IF result_bits(eng.kind) = word_size THEN float64_drop ELSE float32_drop
CanonicalDigits ==
  IF result_bits(eng.kind) = word_size THEN float64_digits ELSE float32_digits

Widening ==
  /\ dist.kind = "uniform_int"
  /\ result_bits(eng.kind) = half_size
  /\ DistRange(dist, Max(half_size, TypeBits(dist.type))) > Pow2(half_size) - 1

\* the second and third word the last call drew
SecondWord == Draw(FirstWord.u)
ThirdWord == Draw(SecondWord.u)

\* ((u1 XOR u3) << 32) | u2
SeedOfWords(u1, u2, u3) == BitXor(u1, u3) * Pow2(half_size) + u2

\* the call that goes back over the last call
BackOver == IF last.op = "next" THEN RngPrevious(Rng) ELSE RngNext(Rng)

\* the first word the call back over the last call draws
BackWord ==
  Draw(IF last.op = "next" THEN ReversedSource(eng) ELSE ForwardSource(eng))

\* C19: a 32-bit engine under an integer distribution of a wider range gives
\* each sample exactly three words u1, u2, u3 and nothing else; the sample is
\* drawn from a Xoshiro256 seeded with ((u1 XOR u3) << 32) | u2, which is the
\* seed of the words in the order u3, u2, u1 as well, so the call in the
\* other direction meets the words in that order, returns the same sample and
\* puts the engine back.
C19_ThreeWordSeed ==
  (Called /\ Widening)
    => /\ last.words = 3
       /\ EngineEqual(eng, ThirdWord.u.e)
       /\ last.ret =
            UniformIntWide(dist,
              XoshiroSource(SeedOfWords(FirstWord.out, SecondWord.out,
                                        ThirdWord.out))).out
       /\ SeedOfWords(ThirdWord.out, SecondWord.out, FirstWord.out)
            = SeedOfWords(FirstWord.out, SecondWord.out, ThirdWord.out)
       /\ BackWord.out = ThirdWord.out
       /\ BackOver.words = 3
       /\ BackOver.out = last.ret
       /\ RngEqual(BackOver.g, last.pre)

C19_Witness ==
  /\ Called /\ Widening /\ last.op = "next" /\ position > 1
  /\ FirstWord.out # ThirdWord.out
  /\ dist.a < 0 /\ last.ret < 0

\* a 64-bit engine under the integer distribution over [0, 2^63 - 1]
HalfRange ==
  /\ result_bits(eng.kind) = word_size
  /\ dist = UniformIntDist("long", 0, TypeMax("long"))

\* C20 as stated: with a 64-bit engine the integer distribution over
\* [0, 2^63 - 1] goes through the branch for an engine range equal to the
\* distribution range, which returns the word plus a.
C20_EqualRangeBranch ==
  (Called /\ HalfRange)
    => /\ DistRange(dist, word_size) = Pow2(word_size) - 1
       /\ last.ret = WordPlusA(FirstWord.out, dist)

\* C20 amended: with a 64-bit engine the integer distribution over
\* [0, 2^63 - 1] goes through the branch for an engine range above the
\* distribution range, Lemire's reduction to 2^63 values, which takes one
\* word, never rejects, and returns the word shifted right by one.
C20_LemireBranch ==
  (Called /\ HalfRange)
    => /\ Pow2(word_size) - 1 > DistRange(dist, word_size)
       /\ last.words = 1
       /\ last.ret = FirstWord.out \div 2

C20_Witness ==
  /\ Called /\ HalfRange /\ last.op = "previous"
  /\ FirstWord.out % 2 = 1 /\ FirstWord.out >= Pow2(word_size - 1)

\* C13: the text operator<< writes for an engine or a composite, read by
\* operator>> into another instance of the type, gives an instance equal to
\* the one written; the composite's text is the engine's tokens, the
\* distribution's parameters and the signed position, in that order with
\* spaces between, and the reader takes all of it.
C13_StreamRoundTrip ==
  last.op = "stream"
    => /\ ~last.fail
       /\ last.rest = 0
       /\ RngEqual(last.ret, last.pre)
       /\ RngEqual(last.pre, Rng)
       /\ last.text = FormatEngine(eng) \o <<space>> \o FormatDist(dist)
                        \o <<space>> \o FormatInt(position)
       /\ EngineEqual(ReadEngine([rd |-> Reader(FormatEngine(eng)),
                                  g |-> Another(Rng, 0)]).g.engine_, eng)

C13_Witness ==
  /\ last.op = "stream" /\ position < -1
  /\ eng.kind = "mt" /\ eng.pos_ \in 1 .. state_size - 1
  /\ dist.kind = "uniform_int" /\ dist.a < 0
  /\ eng.state_ # EngineSeed("mt", seedv).state_

(***************************************************************************)
(* SpecReduce: the two range reductions applied to every word of the       *)
(* engine in turn, for every range, with a tally of the accepted words by  *)
(* the value they give.  A word is accepted when the reduction returns     *)
(* without asking for another.                                             *)
(***************************************************************************)
\* the bits of the engine word on a path
PathBits(path) == IF path = "lemires" THEN word_size ELSE half_size

ReduceInit ==
  /\ \E path \in {"lemires", "modulo"} :
       \E range \in 1 .. Pow2(PathBits(path)) - 1 :
         last = [op |-> "reduce", path |-> path, range |-> range, word |-> 0,
                 tally |-> [v \in 0 .. range - 1 |-> 0], rejected |-> 0,
                 accepted |-> FALSE, value |-> 0]
  /\ eng = EngineSeed("pcg64", 0)
  /\ dist = NoDist
  /\ seedv = 0
  /\ position = 0
  /\ net = 0
  /\ fresh = TRUE
  /\ trail = <<>>
  /\ tdir = "next"
  /\ popping = FALSE
  /\ base = "seed"
  /\ chk = NoChk
  /\ scalar = TRUE
  /\ twin = NoTwin
  /\ polar = NoPolar

\* the tally after the word last.word went as r
Reduced(r) ==
  /\ last' = [last EXCEPT
                !.word = last.word + 1,
                !.accepted = ~r.stuck,
                !.value = r.out,
                !.rejected = IF r.stuck THEN last.rejected + 1 ELSE last.rejected,
                !.tally = IF r.stuck THEN last.tally
                          ELSE [last.tally EXCEPT ![r.out] = last.tally[r.out] + 1]]
  /\ UNCHANGED <<eng, dist, position, seedv, net, fresh, trail, tdir, popping,
                 base, chk, scalar, twin, polar>>

\* util::lemires(urng, range) on a 64-bit generator that returns last.word
ReduceLemires ==
  /\ last.path = "lemires"
  /\ last.word < Pow2(word_size)
  /\ Reduced(lemires(ConstantSource(last.word, word_size), last.range))

\* UniformIntDistribution<unsigned long>(0, range - 1) on a 32-bit generator
\* that returns last.word
ReduceModulo ==
  /\ last.path = "modulo"
  /\ last.word < Pow2(half_size)
  /\ Reduced(UniformInt(UniformIntDist("ulong", 0, last.range - 1),
                        ConstantSource(last.word, half_size)))

ReduceStep == ReduceLemires \/ ReduceModulo

SpecReduce == ReduceInit /\ [][ReduceStep]_vars

\* the word the last step reduced
ReducedWord == last.word - 1

\* C21: for every range n from 1 to the engine range, the accepted words of
\* the engine give each value of [0, n) equally often, for util::lemires
\* (a word u is accepted when the low half of u * n is at least 2^64 mod n
\* and gives the high half) and for the modulo rejection loop of the 32-bit
\* engines.
C21_Unbiased ==
  /\ (last.op = "reduce" /\ last.word = Pow2(PathBits(last.path)))
       => /\ \A v \in 0 .. last.range - 1 :
               last.tally[v] = last.tally[0] /\ last.tally[v] >= 1
          /\ last.tally[0] * last.range + last.rejected = Pow2(PathBits(last.path))
  /\ (last.op = "reduce" /\ last.path = "lemires" /\ last.word > 0)
       => /\ last.accepted <=>
               (ReducedWord * last.range) % Pow2(word_size)
                 >= Pow2(word_size) % last.range
          /\ last.accepted
               => last.value = (ReducedWord * last.range) \div Pow2(word_size)
  /\ (last.op = "reduce" /\ last.path = "modulo" /\ last.word > 0 /\ last.accepted)
       => last.value = ReducedWord % last.range

C21_Witness ==
  /\ last.op = "reduce" /\ last.path = "lemires"
  /\ last.word = Pow2(word_size)
  /\ last.range > Pow2(word_size - 1) /\ last.rejected > 0

(***************************************************************************)
(* ReversiblePolar (src/examples/polar.h, src/examples/polar.hpp): normal  *)
(* samples by the Marsaglia polar method over urng_, a UniformRNG on       *)
(* (-1, 1).  urng_ is the composite eng, dist, position; polar holds the   *)
(* other members.  A polar value u * sqrt(-2 log(s) / s) is kept as the    *)
(* numerator x of u and the numerator s of u * u + v * v it is computed    *)
(* from, and a returned sample as that value with stddev and mean.         *)
(***************************************************************************)
\* result_type saved_ = 0.0, next_saved_ = 0.0
PolarZero == [x |-> 0, s |-> 0]

\* u * s for the scale s computed from the sum
PolarValue(x, s) == IF x = 0 THEN PolarZero ELSE [x |-> x, s |-> s]

\* s = u * u + v * v in result_type, as a numerator over 2^(2 * digits)
PolarSum(u, v, type) ==
  RoundBits(RoundBits(u.num * u.num, RealBits(type))
            + RoundBits(v.num * v.num, RealBits(type)), RealBits(type))

\* polar(urng): do { u = urng(); v = urng(); s = u * u + v * v; }
\* while (s >= 1.0 || s == 0.0); return {u * s, v * s}.  urng is urng_ itself
\* or ReversedEngine(urng_), whose operator() is urng_.previous()
RECURSIVE PolarLoop(_, _, _)
PolarTest(ru, rv, s, backward, n) ==
  IF s >= Pow2(2 * ru.out.digits) \/ s = 0
  THEN PolarLoop(rv.g, backward, n - 1)
  ELSE [g |-> rv.g, first |-> PolarValue(ru.out.num, s),
        second |-> PolarValue(rv.out.num, s), stuck |-> FALSE]

PolarPair(ru, rv, backward, n) ==
  PolarTest(ru, rv, PolarSum(ru.out, rv.out, ru.g.distribution_.type),
            backward, n)

PolarSecond(ru, backward, n) ==
  PolarPair(ru, RngCall(ru.g, backward), backward, n)

PolarLoop(g, backward, n) ==
  IF n = 0
  THEN [g |-> g, first |-> PolarZero, second |-> PolarZero, stuck |-> TRUE]
  ELSE PolarSecond(RngCall(g, backward), backward, n)

\* value * stddev() + mean()
PolarScaled(v, p) ==
  [x |-> v.x, s |-> v.s, stddev |-> p.stddev_, mean |-> p.mean_]

\* ReversiblePolar(mean, stddev): urng_(-1, 1), the flags cleared
PolarOf(mean, stddev) ==
  [built |-> TRUE, mean_ |-> mean, stddev_ |-> stddev,
   reversing_ |-> FALSE, saved_available_ |-> FALSE,
   saved_ |-> PolarZero, next_saved_ |-> PolarZero]

\* reset(): reversing_ = false; saved_available_ = false
PolarReset(p) == [p EXCEPT !.reversing_ = FALSE, !.saved_available_ = FALSE]

\* the pair drawn by next(): std::tie(saved_, next_saved_) = polar(urng_)
PolarDrawnNext(p, r) ==
  [p |-> [p EXCEPT !.reversing_ = FALSE, !.saved_available_ = TRUE,
                   !.saved_ = r.first, !.next_saved_ = r.second],
   g |-> r.g, out |-> PolarScaled(r.first, p), stuck |-> r.stuck]

\* A next() that draws the new pair from where urng_ stands, also after
\* previous().
PolarNextNoSkip(p, g) ==
  IF p.saved_available_
  THEN [p |-> [p EXCEPT !.saved_available_ = FALSE], g |-> g,
        out |-> PolarScaled(p.next_saved_, p), stuck |-> FALSE]
  ELSE PolarDrawnNext(p, PolarLoop(g, FALSE, MaxWords))

\* ReversiblePolar::next()
PolarNext(p, g) ==
  IF p.saved_available_
  THEN [p |-> [p EXCEPT !.saved_available_ = FALSE], g |-> g,
        out |-> PolarScaled(p.next_saved_, p), stuck |-> FALSE]
  ELSE PolarDrawnNext(p, PolarLoop(IF p.reversing_ THEN NextVector(g, 2).g
                                   ELSE g, FALSE, MaxWords))

\* the pair drawn by previous(): result is the old saved_, then
\* std::tie(next_saved_, saved_) = polar(reversed)
PolarDrawnPrevious(p, r) ==
  [p |-> [p EXCEPT !.reversing_ = TRUE, !.saved_available_ = FALSE,
                   !.next_saved_ = r.first, !.saved_ = r.second],
   g |-> r.g, out |-> PolarScaled(p.saved_, p), stuck |-> r.stuck]

\* ReversiblePolar::previous()
PolarPrevious(p, g) ==
  IF ~p.saved_available_
  THEN [p |-> [p EXCEPT !.saved_available_ = TRUE], g |-> g,
        out |-> PolarScaled(p.next_saved_, p), stuck |-> FALSE]
  ELSE PolarDrawnPrevious(p, PolarLoop(IF p.reversing_ THEN g
                                       ELSE PreviousVector(g, 2).g,
                                       TRUE, MaxWords))

(***************************************************************************)
(* SpecPolar: one ReversiblePolar<double> under seed(), next() and         *)
(* previous().  net is the signed index of the sampler in its sequence,    *)
(* last.seen the sample returned for each index since seed(), last.first   *)
(* the first call made since seed(), last.floor the lowest index reached   *)
(* since seed() and last.pre the sampler the last call was made on.        *)
(***************************************************************************)
PolarIndexes == -MaxBehind .. MaxAhead - 1
NoSample == [x |-> 0, s |-> 0, stddev |-> 0, mean |-> 0]
NoneSeen == [i \in PolarIndexes |-> NoSample]

PolarInit ==
  /\ \E mean \in {0, 3}, stddev \in {1, 2} : polar = PolarOf(mean, stddev)
  /\ \E sd \in Seeds : eng = EngineSeed("pcg64", sd) /\ seedv = sd
  /\ dist = UniformRealDist("double", -1, 1)
  /\ position = 0
  /\ net = 0
  /\ fresh = TRUE
  /\ trail = <<>>
  /\ tdir = "next"
  /\ popping = FALSE
  /\ base = "seed"
  /\ chk = NoChk
  /\ scalar = TRUE
  /\ last = [op |-> "seed", first |-> "none", seen |-> NoneSeen, floor |-> 0]
  /\ twin = NoTwin

\* seed(sd): urng_.seed(sd); reset()
PolarDoSeed ==
  /\ \E sd \in Seeds :
       /\ Install(RngSeed(Rng, sd))
       /\ seedv' = sd
  /\ polar' = PolarReset(polar)
  /\ net' = 0
  /\ fresh' = TRUE
  /\ last' = [op |-> "seed", first |-> "none", seen |-> NoneSeen, floor |-> 0]
  /\ UNCHANGED <<trail, tdir, popping, base, chk, scalar, twin>>

\* a call op that went as r and returned the sample of index at
PolarCalled(op, r, at) ==
  /\ ~r.stuck
  /\ Install(r.g)
  /\ polar' = r.p
  /\ fresh' = FALSE
  /\ last' = [op |-> op, ret |-> r.out, at |-> at,
              first |-> IF last.first = "none" THEN op ELSE last.first,
              known |-> last.seen[at] # NoSample, was |-> last.seen[at],
              seen |-> [last.seen EXCEPT ![at] = r.out],
              floor |-> Min(last.floor, at), pre |-> [p |-> polar, g |-> Rng]]
  /\ UNCHANGED <<seedv, trail, tdir, popping, base, chk, scalar, twin>>

\* polar.next()
PolarDoNext ==
  /\ net < MaxAhead
  /\ PolarCalled("next", PolarNext(polar, Rng), net)
  /\ net' = net + 1

\* polar.previous()
PolarDoPrevious ==
  /\ net > -MaxBehind
  /\ PolarCalled("previous", PolarPrevious(polar, Rng), net - 1)
  /\ net' = net - 1

PolarStep == PolarDoSeed \/ PolarDoNext \/ PolarDoPrevious

SpecPolar == PolarInit /\ [][PolarStep]_vars

\* C22: the polar sampler has one sequence of samples indexed by signed
\* position and fixed by the seed: under any interleaving of next() and
\* previous() after seed(), next() at position p returns the sample of index
\* p and previous() at position p the sample of index p - 1, so a call that
\* comes to an index already visited since seed() returns the sample
\* returned there before.
C22_PolarFixedSequence ==
  (polar.built /\ last.op \in {"next", "previous"} /\ last.known)
    => last.ret = last.was

\* The same for the runs whose first call since seed() is next(): those keep
\* one sequence, at the indexes below 0 as well.
PolarFixedAfterNext ==
  (polar.built /\ last.op \in {"next", "previous"} /\ last.known
     /\ last.first = "next")
    => last.ret = last.was

(***************************************************************************)
(* The C interface (src/src/wrapper.cpp).  A handle is a composite over    *)
(* the default engine made by X_create; eng, dist and position are the     *)
(* composite it points to.  last.arr is the caller's array, of MaxBulk     *)
(* elements, which the array calls fill in part: the caller hands          *)
(* X_next_array a zeroed array, and X_previous_array the array of the      *)
(* array call just before it or else a zeroed one.                         *)
(***************************************************************************)
\* X_create(...): new UniformRNG<double>(a, b), new UniformRNG<int>(a, b),
\* new NormalRNG<double>(mean, stddev), new ExponentialRNG<double>(lambda)
uniform_real_create(a, b) == UniformRealDist("double", a, b)
uniform_int_create(a, b) == UniformIntDist("int", a, b)
normal_create(mean, stddev, below_kn) == NormalDist(mean, stddev, below_kn)
exponential_create(lambda) == ExponentialDist(lambda)

\* X_next_array(rng, arr, n): std::generate(arr, arr + n, next)
next_array(g, arr, n) == Generate(g, arr, 1, 1, n, FALSE, FALSE)

\* A previous_array that fills the array from the front.
previous_array_ascending(g, arr, n) == Generate(g, arr, 1, 1, n, TRUE, FALSE)

\* X_previous_array(rng, arr, n): std::generate over the reverse iterators
\* from arr + n down to arr
previous_array(g, arr, n) == Generate(g, arr, n, -1, n, TRUE, FALSE)

Handles ==
  {uniform_real_create(-2, 2), uniform_int_create(-1, 1),
   normal_create(0, 1, FALSE), normal_create(0, 1, TRUE),
   exponential_create(1)}

FfiInit ==
  /\ dist \in Handles
  /\ \E sd \in Seeds : eng = EngineSeed("pcg64", sd) /\ seedv = sd
  /\ position = 0
  /\ net = 0
  /\ fresh = TRUE
  /\ trail = <<>>
  /\ tdir = "next"
  /\ popping = FALSE
  /\ base = "seed"
  /\ chk = NoChk
  /\ scalar = TRUE
  /\ last = [op |-> "create", n |-> 0, arr |-> Values(MaxBulk),
             before |-> Values(MaxBulk), pre |-> Rng, undoes |-> FALSE]
  /\ twin = NoTwin
  /\ polar = NoPolar

\* a call op on the handle that left the composite g and the array arr
FfiCalled(op, n, g, arr, undoes) ==
  /\ Install(g)
  /\ last' = [op |-> op, n |-> n, arr |-> arr,
              before |-> IF op = "previous_array" THEN last.arr
                         ELSE Values(MaxBulk),
              pre |-> Rng, undoes |-> undoes]
  /\ fresh' = FALSE
  /\ UNCHANGED <<trail, tdir, popping, base, chk, scalar, twin, polar>>

\* X_seed(rng, sd)
FfiSeed ==
  /\ \E sd \in Seeds :
       /\ FfiCalled("seed", 0, RngSeed(Rng, sd), Values(MaxBulk), FALSE)
       /\ seedv' = sd
  /\ net' = 0

\* a scalar call that went as r: the value goes to the caller
FfiScalar(op, r) ==
  /\ ~r.stuck
  /\ FfiCalled(op, 1, r.g, Values(MaxBulk), FALSE)
  /\ UNCHANGED seedv

\* X_next(rng)
FfiNext ==
  /\ net < MaxAhead
  /\ FfiScalar("next", RngNext(Rng))
  /\ net' = net + 1

\* X_previous(rng)
FfiPrevious ==
  /\ net > -MaxBehind
  /\ FfiScalar("previous", RngPrevious(Rng))
  /\ net' = net - 1

\* an array call that went as r
FfiArray(op, n, r, undoes) ==
  /\ ~r.stuck
  /\ FfiCalled(op, n, r.g, r.out, undoes)
  /\ UNCHANGED seedv

\* X_next_array(rng, arr, n)
FfiNextArray ==
  \E n \in 0 .. MaxBulk :
    /\ net + n <= MaxAhead
    /\ FfiArray("next_array", n, next_array(Rng, Values(MaxBulk), n), FALSE)
    /\ net' = net + n

\* X_previous_array(rng, arr, n)
FfiPreviousArray ==
  \E n \in 0 .. MaxBulk :
    /\ net - n >= -MaxBehind
    /\ FfiArray("previous_array", n, previous_array(Rng, last.arr, n),
                last.op = "next_array" /\ last.n = n)
    /\ net' = net - n

FfiStep ==
  FfiSeed \/ FfiNext \/ FfiPrevious \/ FfiNextArray \/ FfiPreviousArray

SpecFfi == FfiInit /\ [][FfiStep]_vars

\* C23: for each family of the C interface, X_next_array(h, buf, n) writes
\* the n next() draws to buf[0 .. n-1] in call order and X_previous_array
\* writes the n previous() draws to buf[n-1] down to buf[0], neither touching
\* the rest of buf; X_previous_array right after X_next_array with the same n
\* leaves buf as X_next_array left it and the handle at the position it had
\* before the two calls.
C23_ArrayCalls ==
  /\ last.op = "next_array" =>
       /\ \A i \in 1 .. last.n :
            last.arr[i] = ScalarNexts(last.pre, last.n).out[i]
       /\ \A i \in last.n + 1 .. MaxBulk : last.arr[i] = last.before[i]
       /\ RngEqual(Rng, ScalarNexts(last.pre, last.n).g)
  /\ last.op = "previous_array" =>
       /\ \A j \in 0 .. last.n - 1 :
            last.arr[last.n - j] = ScalarPrevious(last.pre, last.n).out[j + 1]
       /\ \A i \in last.n + 1 .. MaxBulk : last.arr[i] = last.before[i]
       /\ RngEqual(Rng, ScalarPrevious(last.pre, last.n).g)
  /\ (last.op = "previous_array" /\ last.undoes) =>
       /\ last.arr = last.before
       /\ position = last.pre.position_ - last.n
       /\ position = net

C23_Witness ==
  /\ last.op = "previous_array" /\ last.undoes
  /\ last.n = MaxBulk
  /\ dist.kind = "normal"
  /\ last.arr[1] # last.arr[2] /\ last.arr[2] # last.arr[3]
  /\ last.arr = last.before

(***************************************************************************)
(* ReversedEngine (src/src/reverse.h), under SpecSamples.                  *)
(***************************************************************************)
\* the engine e after n calls of previous()
RECURSIVE Retreat(_, _)
Retreat(e, n) == IF n <= 0 THEN e ELSE Retreat(EnginePrevious(e).eng, n - 1)

\* C24: the call operator of ReversedEngine returns previous() of the
\* wrapped engine and steps that engine object itself, not a copy: after a
\* previous() of the composite its engine is the engine before the call
\* stepped back once for each word drawn, and a one-word sample is the sample
\* of the word previous() returned; min() and max() of the reversed engine
\* are those of the wrapped engine.
C24_ReversedEngine ==
  /\ last.op = "previous" =>
       /\ FirstWord.out = EnginePrevious(last.pre.engine_).out
       /\ FirstWord.u.e = EnginePrevious(last.pre.engine_).eng
       /\ eng = Retreat(last.pre.engine_, last.words)
       /\ (dist.kind \in {"uniform_real", "exponential"} \/ EqualRange)
            => last.ret = OfOneWord(Stepped(ReversedSource(last.pre.engine_),
                                            EnginePrevious(last.pre.engine_)))
  /\ SourceBits(ReversedSource(eng)) = result_bits(eng.kind)
  /\ SourceBits(ReversedSource(eng)) = SourceBits(ForwardSource(eng))

C24_Witness ==
  /\ last.op = "previous" /\ last.words = 3
  /\ eng.kind = "pcg32"
  /\ eng = Retreat(last.pre.engine_, 3)
  /\ eng # last.pre.engine_

(***************************************************************************)
(* SpecPair: two generator objects and calls on them in any order.  The    *)
(* members of a generator are non-static (engine_, distribution_ and       *)
(* position_ of ReversibleRNG, state_ and pos_ of ReversibleMersenne) and  *)
(* a handle of the C interface is the address of an object of its own made *)
(* by new.  twin.heap holds the objects by address, twin.h the two         *)
(* addresses the program holds, twin.log the calls made through each and   *)
(* twin.init the objects as constructed; net counts the calls made on the  *)
(* other object than the call before.                                      *)
(***************************************************************************)
\* the most calls made on one object
MaxPairCalls == 2

\* An allocation that hands out the address of the object made last.
NewAliased(heap) == IF heap = <<>> THEN 1 ELSE Len(heap)

\* new T(...), or the definition of another object: an address no object of
\* the heap has
New(heap) == Len(heap) + 1

Store(heap, a, x) ==
  IF a > Len(heap) THEN Append(heap, x) ELSE [heap EXCEPT ![a] = x]

\* the heap with a new object x, and its address
Allocate(heap, x) == [heap |-> Store(heap, New(heap), x), h |-> New(heap)]

\* the objects: a handle of the C interface, a composite over the Mersenne
\* engine and a Mersenne engine on its own, each seeded at construction
PairObjects ==
  {[k |-> "rng", g |-> [engine_ |-> EngineSeed("pcg64", 0),
                        distribution_ |-> normal_create(0, 1, FALSE),
                        position_ |-> 0]],
   [k |-> "rng", g |-> [engine_ |-> EngineSeed("mt", 0),
                        distribution_ |-> UniformRealDist("double", -2, 2),
                        position_ |-> 0]],
   [k |-> "engine", e |-> EngineSeed("mt", 0)]}

PairCalls ==
  {[op |-> "seed", arg |-> 1], [op |-> "next", arg |-> 0],
   [op |-> "previous", arg |-> 0]}

\* the call c on the object x: the object after it and the value returned
OfRng(x, r) == [x |-> [x EXCEPT !.g = r.g], out |-> r.out, stuck |-> r.stuck]
OfEngine(x, r) == [x |-> [x EXCEPT !.e = r.eng], out |-> r.out, stuck |-> FALSE]

Apply(x, c) ==
  CASE x.k = "rng" /\ c.op = "seed" ->
         [x |-> [x EXCEPT !.g = RngSeed(x.g, c.arg)], out |-> 0, stuck |-> FALSE]
    [] x.k = "rng" /\ c.op = "next" -> OfRng(x, RngNext(x.g))
    [] x.k = "rng" /\ c.op = "previous" -> OfRng(x, RngPrevious(x.g))
    [] x.k = "engine" /\ c.op = "seed" ->
         [x |-> [x EXCEPT !.e = EngineSeed(x.e.kind, c.arg)], out |-> 0,
          stuck |-> FALSE]
    [] x.k = "engine" /\ c.op = "next" -> OfEngine(x, EngineNext(x.e))
    [] OTHER -> OfEngine(x, EnginePrevious(x.e))

\* the second object made after the first
PairMade(first, y) ==
  [paired |-> FALSE,
   heap |-> Allocate(first.heap, y).heap,
   h |-> <<first.h, Allocate(first.heap, y).h>>,
   log |-> <<<<>>, <<>>>>,
   init |-> <<first.heap[first.h], y>>]

PairInit ==
  /\ \E x \in PairObjects, y \in PairObjects :
       twin = PairMade(Allocate(<<>>, x), y)
  /\ eng = EngineSeed("pcg64", 0)
  /\ dist = NoDist
  /\ seedv = 0
  /\ position = 0
  /\ net = 0
  /\ fresh = TRUE
  /\ trail = <<>>
  /\ tdir = "next"
  /\ popping = FALSE
  /\ base = "seed"
  /\ chk = NoChk
  /\ scalar = TRUE
  /\ last = NoLast
  /\ polar = NoPolar

\* the call c through the address twin.h[i] went as r
PairCalled(i, c, r) ==
  /\ ~r.stuck
  /\ twin' = [twin EXCEPT !.heap = Store(twin.heap, twin.h[i], r.x),
                          !.log[i] = Append(twin.log[i], c)]
  /\ net' = IF last # NoLast /\ last.who # i THEN net + 1 ELSE net
  /\ last' = [op |-> c.op, who |-> i, ret |-> r.out]
  /\ UNCHANGED <<eng, dist, position, seedv, fresh, trail, tdir, popping,
                 base, chk, scalar, polar>>

\* a call on the first object
PairFirst ==
  /\ Len(twin.log[1]) < MaxPairCalls
  /\ \E c \in PairCalls : PairCalled(1, c, Apply(twin.heap[twin.h[1]], c))

\* a call on the second object
PairSecond ==
  /\ Len(twin.log[2]) < MaxPairCalls
  /\ \E c \in PairCalls : PairCalled(2, c, Apply(twin.heap[twin.h[2]], c))

PairStep == PairFirst \/ PairSecond

SpecPair == PairInit /\ [][PairStep]_vars

\* the calls of log made on the object x with no other object around: the
\* object left and the value of the last call
RECURSIVE Alone(_, _)
Alone(x, log) ==
  IF log = <<>> THEN [x |-> x, out |-> 0, stuck |-> FALSE]
  ELSE Apply(Alone(x, SubSeq(log, 1, Len(log) - 1)).x, log[Len(log)])

\* C25: generator instances share no mutable state: when calls on two
\* distinct instances (composites, engines, handles of the C interface) are
\* interleaved in any order, every call returns the value and each instance
\* has the state that the calls made on that instance give when no other
\* instance exists.
C25_Isolated ==
  twin.h # <<>> =>
    /\ twin.h[1] # twin.h[2]
    /\ \A i \in {1, 2} :
         twin.heap[twin.h[i]] = Alone(twin.init[i], twin.log[i]).x
    /\ last.op \in {"seed", "next", "previous"} =>
         last.ret = Alone(twin.init[last.who], twin.log[last.who]).out

C25_Witness ==
  /\ net = 2 * MaxPairCalls - 1
  /\ last.op = "previous"
  /\ twin.heap[twin.h[1]] # twin.init[1]
  /\ twin.heap[twin.h[2]] # twin.init[2]
  /\ twin.init[1].k # twin.init[2].k

(***************************************************************************)
(* SpecCreate: the constructors of the distributions.  Each checks its     *)
(* parameters with assert, which the build compiles to nothing when NDEBUG *)
(* is defined and to a call of abort() on failure otherwise; the build is  *)
(* chosen with the construction.  dist is NoDist until a composite is      *)
(* made, and stays so when the process was aborted.                        *)
(***************************************************************************)
\* the condition of the constructor's assert: a <= b (uniform.h),
\* stddev_ > 0 (reverse.hpp), lambda_ > 0 (exponential.h)
Asserted(d) ==
  CASE d.kind \in {"uniform_int", "uniform_real"} -> d.a <= d.b
    [] d.kind = "normal" -> d.stddev > 0
    [] OTHER -> d.lambda > 0

\* DistType(args...): the members set, then assert(condition)
Construct(d, ndebug) ==
  IF ndebug \/ Asserted(d) THEN [aborted |-> FALSE, dist |-> d]
  ELSE [aborted |-> TRUE, dist |-> NoDist]

CreateParams ==
  {UniformIntDist("int", -1, 1), UniformIntDist("int", 1, -1),
   UniformIntDist("int", 2, 2),
   UniformRealDist("double", -2, 2), UniformRealDist("double", 2, -2),
   NormalDist(0, 1, FALSE), NormalDist(0, 0, FALSE), NormalDist(0, -1, FALSE),
   ExponentialDist(1), ExponentialDist(0), ExponentialDist(-1)}

CreateInit ==
  /\ \E sd \in Seeds : eng = EngineSeed("pcg64", sd) /\ seedv = sd
  /\ dist = NoDist
  /\ position = 0
  /\ net = 0
  /\ fresh = TRUE
  /\ trail = <<>>
  /\ tdir = "next"
  /\ popping = FALSE
  /\ base = "seed"
  /\ chk = NoChk
  /\ scalar = TRUE
  /\ last = NoLast
  /\ twin = NoTwin
  /\ polar = NoPolar

\* the construction of the distribution with parameters d went as c
Created(d, ndebug, c) ==
  /\ dist' = c.dist
  /\ last' = [op |-> "create", params |-> d, ndebug |-> ndebug,
              aborted |-> c.aborted]
  /\ UNCHANGED <<eng, position, seedv, net, fresh, trail, tdir, popping, base,
                 chk, scalar, twin, polar>>

\* ReversibleRNG<DistType> rng(args...), or X_create(args...)
CreateDist ==
  /\ last = NoLast
  /\ \E d \in CreateParams, ndebug \in BOOLEAN :
       Created(d, ndebug, Construct(d, ndebug))

\* a scalar call of the composite made that went as r
CreateSampled(op, r) ==
  /\ ~r.stuck
  /\ Install(r.g)
  /\ net' = r.g.position_
  /\ fresh' = FALSE
  /\ last' = [op |-> op, ret |-> r.out]
  /\ UNCHANGED <<seedv, trail, tdir, popping, base, chk, scalar, twin, polar>>

\* rng.next()
CreateNext ==
  /\ dist # NoDist
  /\ position < MaxAhead
  /\ CreateSampled("next", RngNext(Rng))

\* rng.previous()
CreatePrevious ==
  /\ dist # NoDist
  /\ position > -MaxBehind
  /\ CreateSampled("previous", RngPrevious(Rng))

CreateStep == CreateDist \/ CreateNext \/ CreatePrevious

SpecCreate == CreateInit /\ [][CreateStep]_vars

\* the parameters the distributions are defined for
ValidParameters(d) ==
  /\ d.kind \in {"uniform_int", "uniform_real"} => ~(d.a > d.b)
  /\ d.kind = "normal" => ~(d.stddev <= 0)
  /\ d.kind = "exponential" => ~(d.lambda <= 0)

\* C26: creating a distribution with a > b, stddev <= 0 or lambda <= 0 ends
\* in an invalid-parameter error at the call, the failed assertion, and
\* makes no distribution, so no sample is ever drawn from such parameters.
C26_InvalidParameters ==
  /\ (last.op = "create" /\ ~ValidParameters(last.params))
       => (last.aborted /\ dist = NoDist)
  /\ last.op \in {"next", "previous"} => ValidParameters(dist)

(***************************************************************************)
(* SpecRange: UniformIntDistribution::operator() over generators of three  *)
(* widths, word_size, half_size and the narrower narrow_size (64, 32 and   *)
(* 16 bits in the source), for every pair a <= b of the result type.  The  *)
(* generator returns last.word on every call.                              *)
(***************************************************************************)
narrow_size == half_size - 1

RangeTypes == {"int", "long", "ulong"}

RangeInit ==
  /\ \E bits \in {narrow_size, half_size, word_size}, type \in RangeTypes :
       \E a \in {TypeMin(type), -1, 0, 1} \cap (TypeMin(type) .. TypeMax(type)),
          b \in {0, 1, Pow2(narrow_size) - 1, Pow2(narrow_size),
                 Pow2(half_size), TypeMax(type)} :
         /\ a <= b /\ b <= TypeMax(type)
         /\ dist = UniformIntDist(type, a, b)
         /\ last = [op |-> "none", bits |-> bits, word |-> 0]
  /\ eng = EngineSeed("pcg64", 0)
  /\ seedv = 0
  /\ position = 0
  /\ net = 0
  /\ fresh = TRUE
  /\ trail = <<>>
  /\ tdir = "next"
  /\ popping = FALSE
  /\ base = "seed"
  /\ chk = NoChk
  /\ scalar = TRUE
  /\ twin = NoTwin
  /\ polar = NoPolar

\* dist(urng) went as r
RangeSampled(word, r) ==
  /\ last' = [op |-> "sample", bits |-> last.bits, word |-> word,
              thrown |-> Threw(r), stuck |-> r.stuck, ret |-> r.out,
              words |-> r.u.n]
  /\ UNCHANGED <<eng, dist, position, seedv, net, fresh, trail, tdir, popping,
                 base, chk, scalar, twin, polar>>

\* dist(urng) for a generator of last.bits bits
RangeSample ==
  /\ \E word \in {0, 1, Pow2(last.bits) - 1} :
       RangeSampled(word, UniformInt(dist, ConstantSource(word, last.bits)))

RangeStep == RangeSample

SpecRange == RangeInit /\ [][RangeStep]_vars

\* b - a exceeds URNG::max() - URNG::min()
RangeExceeds ==
  DistRange(dist, Max(last.bits, TypeBits(dist.type))) > Pow2(last.bits) - 1

\* C27: when the range of the integer distribution exceeds the range of the
\* engine and the engine is not a 32-bit one, sampling ends in the
\* range-unsupported exception: no sample is returned and no word is drawn;
\* in every other case a sample is returned.
C27_RangeUnsupported ==
  last.op = "sample" =>
    /\ (RangeExceeds /\ last.bits # half_size)
         => (last.thrown /\ last.words = 0)
    /\ last.thrown => (RangeExceeds /\ last.bits # half_size)

C27_Witness ==
  /\ last.op = "sample" /\ last.thrown
  /\ last.bits = narrow_size
  /\ dist.type = "int" /\ dist.a < 0

(***************************************************************************)
(* SpecRead: operator>> of a composite over ReversibleMersenne on texts    *)
(* that lack a token of the layout or hold a word that is no number in     *)
(* place of one.  The text is what operator<< writes for the composite,    *)
(* damaged; it is read into another instance of the same type.             *)
(***************************************************************************)
\* the tokens of a text: its maximal runs of characters other than space
RECURSIVE TokensFrom(_, _, _)
TokensFrom(text, at, token) ==
  IF at > Len(text) THEN (IF token = <<>> THEN <<>> ELSE <<token>>)
  ELSE IF text[at] = space
  THEN (IF token = <<>> THEN <<>> ELSE <<token>>) \o TokensFrom(text, at + 1, <<>>)
  ELSE TokensFrom(text, at + 1, Append(token, text[at]))

Tokens(text) == TokensFrom(text, 1, <<>>)

\* the tokens with a space between them
RECURSIVE Join(_)
Join(tokens) ==
  IF tokens = <<>> THEN <<>>
  ELSE IF Len(tokens) = 1 THEN tokens[1]
  ELSE tokens[1] \o <<space>> \o Join(Tail(tokens))

\* the ways a text of n tokens is damaged: cut after k < n tokens, or the
\* token k replaced by a word that is no number
Damages(n) ==
  {[kind |-> "cut", k |-> k] : k \in 0 .. n - 1}
    \cup {[kind |-> "word", k |-> k] : k \in 1 .. n}
    \cup {[kind |-> "none", k |-> 0]}

Damaged(tokens, dmg) ==
  CASE dmg.kind = "cut" -> Join(SubSeq(tokens, 1, dmg.k))
    [] dmg.kind = "word" -> Join([tokens EXCEPT ![dmg.k] = <<"x">>])
    [] OTHER -> Join(tokens)

ReadGenerators ==
  {UniformIntDist("long", -2, 2), UniformRealDist("double", 0, 1),
   ExponentialDist(1), NormalDist(5, 2, FALSE)}

ReadInit ==
  /\ dist \in ReadGenerators
  /\ \E sd \in Seeds : eng = EngineSeed("mt", sd) /\ seedv = sd
  /\ position = 0
  /\ net = 0
  /\ fresh = TRUE
  /\ trail = <<>>
  /\ tdir = "next"
  /\ popping = FALSE
  /\ base = "seed"
  /\ chk = NoChk
  /\ scalar = TRUE
  /\ last = NoLast
  /\ twin = NoTwin
  /\ polar = NoPolar

\* a draw that went as r
ReadDrawn(op, r) ==
  /\ ~r.stuck
  /\ Install(r.g)
  /\ net' = r.g.position_
  /\ fresh' = FALSE
  /\ last' = [op |-> op]
  /\ UNCHANGED <<seedv, trail, tdir, popping, base, chk, scalar, twin, polar>>

\* rng.next()
ReadNext ==
  /\ position < MaxAhead
  /\ ReadDrawn("next", RngNext(Rng))

\* rng.previous()
ReadPrevious ==
  /\ position > -MaxBehind
  /\ ReadDrawn("previous", RngPrevious(Rng))

\* is >> other went as r on the text damaged by dmg
ReadDone(dmg, text, into, r) ==
  /\ last' = [op |-> "read", damage |-> dmg, text |-> text,
              tokens |-> Len(Tokens(text)), fail |-> r.rd.fail,
              into |-> into, ret |-> r.g]
  /\ UNCHANGED <<eng, dist, position, seedv, net, fresh, trail, tdir, popping,
                 base, chk, scalar, twin, polar>>

ReadText(dmg, text, into) == ReadDone(dmg, text, into, ReadRng(text, into))

\* std::istringstream is(text); is >> other
ReadDamaged ==
  /\ last.op # "read"
  /\ \E dmg \in Damages(Len(Tokens(FormatRng(Rng)))) :
       ReadText(dmg, Damaged(Tokens(FormatRng(Rng)), dmg),
                Another(Rng, (seedv + 1) % (MaxSeed + 1)))

ReadStep == ReadNext \/ ReadPrevious \/ ReadDamaged

SpecRead == ReadInit /\ [][ReadStep]_vars

\* the tokens of the layout of the composite: the words of state_, pos_,
\* the parameters of the distribution, position_
LayoutTokens ==
  state_size + 1 + (IF dist.kind = "exponential" THEN 1 ELSE 2) + 1

\* C28: reading a composite from a text that does not parse as the expected
\* token layout, a token missing or a word that is no number where a number
\* is expected, leaves the stream failed when operator>> returns: the
\* failure is reported to the caller and not cleared by a later field.
C28_MalformedReported ==
  last.op = "read" =>
    /\ (last.tokens < LayoutTokens \/ last.damage.kind = "word") => last.fail
    /\ last.damage.kind = "none" => (~last.fail /\ last.tokens = LayoutTokens)

C28_Witness ==
  /\ last.op = "read" /\ last.fail
  /\ last.damage.kind = "word" /\ last.damage.k = 2
  /\ position = -1
  /\ last.ret.engine_.state_[0] = eng.state_[0]
  /\ last.ret.position_ = 0

(***************************************************************************)
(* The table of multiplicative inverses, under SpecInverse.                *)
(***************************************************************************)
MaxBump == 3
MaxStart == 3

\* the rows of the table: the state type and the multiplier of each entry
InverseRows ==
  {"uint8_default", "uint16_default", "uint32_default", "uint64_default",
   "uint128_default", "uint128_cheap"}

\* the bits of the state type that the row is checked at: the 8- and 16-bit
\* rows in full, the wider rows in their 16 low bits
row_bits(row) == IF row = "uint8_default" THEN 8 ELSE 16

\* pcg_detail::default_multiplier and cheap_multiplier of the row:
\* 141, 12829, 747796405 and the constants of the wide types
row_multiplier(row) ==
  CASE row = "uint8_default" -> 141
    [] row = "uint16_default" -> 12829
    [] row = "uint32_default" -> 30645
    [] row = "uint64_default" -> default_multiplier_64_lo
    [] row = "uint128_default" -> default_multiplier_128_lo
    [] row = "uint128_cheap" -> cheap_multiplier_128_lo

\* A table whose 16-bit row was copied from the 8-bit one.
InverseCopiedRow(row) ==
  CASE row = "uint8_default" -> 69
    [] row = "uint16_default" -> 69
    [] row = "uint32_default" -> 65181
    [] row = "uint64_default" -> inverse_64_lo
    [] row = "uint128_default" -> inverse_128_lo
    [] row = "uint128_cheap" -> inverse_cheap_128_lo

\* Inverse<itype, multiplier>::value: 69, 8245, 3425435293 and the
\* constants of the wide types
Inverse(row) ==
  CASE row = "uint8_default" -> 69
    [] row = "uint16_default" -> 8245
    [] row = "uint32_default" -> 65181
    [] row = "uint64_default" -> inverse_64_lo
    [] row = "uint128_default" -> inverse_128_lo
    [] row = "uint128_cheap" -> inverse_cheap_128_lo

\* engine::bump: state * multiplier + increment
bump_row(row, inc, state) ==
  AddMod(MulMod(state, row_multiplier(row), row_bits(row)), inc, row_bits(row))

\* ReversiblePCG::unbump: (state - increment) * inverse
unbump_row(row, inc, state) ==
  MulMod(SubMod(state, inc, row_bits(row)), Inverse(row), row_bits(row))

\* increments: none (mcg), one, the default increment, an even one and the
\* largest
Increments(row) ==
  {0, 1, 2, default_increment_lo % Pow2(row_bits(row)), Pow2(row_bits(row)) - 1}

\* states the walk starts from: the smallest, the largest and the middle
StartStates(row) ==
  (0 .. MaxStart) \cup (Pow2(row_bits(row)) - 1 - MaxStart .. Pow2(row_bits(row)) - 1)
    \cup {Pow2(row_bits(row) - 1)}

InverseInit ==
  /\ \E row \in InverseRows :
       \E inc \in Increments(row), s \in StartStates(row) :
         eng = [kind |-> "lcg", row |-> row, inc |-> inc, state |-> s]
  /\ last = [op |-> "none", from |-> 0]
  /\ dist = NoDist
  /\ seedv = 0
  /\ position = 0
  /\ net = 0
  /\ fresh = TRUE
  /\ trail = <<>>
  /\ tdir = "next"
  /\ popping = FALSE
  /\ base = "seed"
  /\ chk = NoChk
  /\ scalar = TRUE
  /\ twin = NoTwin
  /\ polar = NoPolar

InverseStepped(op, s, d) ==
  /\ eng' = [eng EXCEPT !.state = s]
  /\ last' = [op |-> op, from |-> eng.state]
  /\ net' = net + d
  /\ UNCHANGED <<dist, position, seedv, fresh, trail, tdir, popping, base,
                 chk, scalar, twin, polar>>

InverseBump ==
  /\ net < MaxBump
  /\ InverseStepped("bump", bump_row(eng.row, eng.inc, eng.state), 1)

InverseUnbump ==
  /\ net > -MaxBump
  /\ InverseStepped("unbump", unbump_row(eng.row, eng.inc, eng.state), -1)

InverseStep == InverseBump \/ InverseUnbump

SpecInverse == InverseInit /\ [][InverseStep]_vars

MaxTwists == 2

\* words a state array is filled with: no bit, the lowest, the lowest upper
\* bit, a mixed word and every bit
ArrayWords ==
  {0, 1, lower_mask + 1, first_mask + lower_mask + 6, word_max}

\* any array in state_, as operator>> can leave it, with pos_ at either end
TwistInit ==
  /\ \E st \in [StateIndex -> ArrayWords], p \in {0, state_size} :
       eng = [kind |-> "mt", state_ |-> st, pos_ |-> p]
  /\ last = [op |-> "none", was |-> "none"]
  /\ dist = NoDist
  /\ seedv = 0
  /\ position = 0
  /\ net = 0
  /\ fresh = TRUE
  /\ trail = <<>>
  /\ tdir = "next"
  /\ popping = FALSE
  /\ base = "array"
  /\ chk = NoChk
  /\ scalar = TRUE
  /\ twin = NoTwin
  /\ polar = NoPolar

\* the array was rewritten by op and is now e
Rewritten(op, e) ==
  /\ eng' = e
  /\ last' = [op |-> op, was |-> last.op, from |-> eng]
  /\ net' = net + 1
  /\ UNCHANGED <<dist, position, seedv, fresh, trail, tdir, popping, base,
                 chk, scalar, twin, polar>>

DoTwist ==
  /\ net < MaxTwists
  /\ Rewritten("twist", twist(eng))

DoUntwist ==
  /\ net < MaxTwists
  /\ Rewritten("untwist", untwist(eng))

TwistStep == DoTwist \/ DoUntwist

SpecTwist == TwistInit /\ [][TwistStep]_vars

\* pos_ after the call that was made
PosAfter ==
  /\ last.op = "twist" => eng.pos_ = 0
  /\ last.op = "untwist" => eng.pos_ = state_size

\* C30 as stated: for any state array S, untwist(twist(S)) restores S word
\* for word and twist(untwist(S)) restores S; after twist pos is 0 and
\* after untwist pos is the size of the array.
C30_TwistRoundTrip ==
  /\ PosAfter
  /\ last.op = "twist" => untwist(eng).state_ = last.from.state_
  /\ last.op = "untwist" => twist(eng).state_ = last.from.state_

\* C30 (amended): untwist(twist(S)) restores every word of any array S but
\* the lower bits of word 0, which twist does not read; when S is itself
\* the result of a twist or of an untwist, untwist(twist(S)) and
\* twist(untwist(S)) both restore S word for word; after twist pos is 0 and
\* after untwist pos is the size of the array.
C30_TwistRoundTripOnImages ==
  /\ PosAfter
  /\ last.op = "twist" =>
       /\ \A k \in StateIndex \ {0} :
            untwist(eng).state_[k] = last.from.state_[k]
       /\ BitAnd(untwist(eng).state_[0], upper_mask) =
            BitAnd(last.from.state_[0], upper_mask)
       /\ last.was # "none" => untwist(eng).state_ = last.from.state_
  /\ last.op = "untwist" =>
       (last.was # "none" => twist(eng).state_ = last.from.state_)

\* An array that a twist made was untwisted, and twist restores it.
C30_Witness ==
  /\ last.op = "untwist" /\ last.was = "twist"
  /\ twist(eng).state_ = last.from.state_
  /\ eng.state_ # last.from.state_

\* the array that untwist makes of the array of this state
Untwisted == untwist(eng).state_

\* an array that has only words 311 and 155 of the given one (the last word
\* and the one before the shift), and no bit elsewhere
OnlyLastAndShift(st) ==
  [k \in StateIndex |->
     IF k \in {state_size - 1, shift_size - 1} THEN st[k] ELSE 0]

\* C31: for any state array S, untwist(twist(S)) agrees with S in every bit
\* except possibly the lower bits of word 0, which twist never reads; when S
\* is itself the result of a twist those bits are restored as well, because
\* untwist rebuilds them from the restored words 311 and 155.
C31_UntwistOfTwist ==
  last.op = "twist" =>
    /\ \A k \in StateIndex \ {0} : Untwisted[k] = last.from.state_[k]
    /\ BitAnd(Untwisted[0], upper_mask) = BitAnd(last.from.state_[0], upper_mask)
    /\ BitAnd(Untwisted[0], lower_mask) =
         BitAnd(UntwistWord(OnlyLastAndShift(Untwisted), 0), lower_mask)
    /\ last.was = "twist" => Untwisted = last.from.state_

\* An array that a twist made, with lower bits in word 0, was twisted again,
\* and untwist brings it back whole.
C31_Witness ==
  /\ last.op = "twist" /\ last.was = "twist"
  /\ BitAnd(last.from.state_[0], lower_mask) # 0
  /\ Untwisted = last.from.state_
  /\ eng.state_ # last.from.state_

(***************************************************************************)
(* The index of ReversibleMersenne, under SpecEngine.                      *)
(***************************************************************************)
\* the index next() would read state_ at: state_[pos_++] after the twist
\* that pos_ >= state_size calls for
NextIndex == (IF eng.pos_ >= state_size THEN twist(eng) ELSE eng).pos_

\* the index previous() would read state_ at: state_[--pos_] after the
\* untwist that pos_ <= 0 calls for
PreviousIndex == (IF eng.pos_ <= 0 THEN untwist(eng) ELSE eng).pos_ - 1

\* the indexes the loops of twist and untwist read and write at step k
LoopIndexes(k) ==
  {k, (k + 1) % state_size, (k + shift_size) % state_size,
   (k - 1 + state_size) % state_size, (k - 1 + shift_size) % state_size}

\* C32: in every state of ReversibleMersenne reachable from seed() by
\* next(), previous() and discard(), pos_ lies in [0, state_size]: it is
\* state_size right after seed() and right after an untwist, 0 right after
\* a twist, at least 1 after next() and at most state_size - 1 after
\* previous(); every access to the state array uses an index in
\* [0, state_size - 1].
C32_PosInRange ==
  IsMersenne =>
    /\ eng.pos_ \in 0 .. state_size
    /\ last.op \in {"none", "seed"} => eng.pos_ = state_size
    /\ untwist(eng).pos_ = state_size
    /\ twist(eng).pos_ = 0
    /\ last.op = "next" => eng.pos_ >= 1
    /\ last.op = "previous" => eng.pos_ <= state_size - 1
    /\ NextIndex \in StateIndex
    /\ PreviousIndex \in StateIndex
    /\ \A k \in StateIndex : LoopIndexes(k) \subseteq StateIndex

\* A previous() at pos_ 0 has untwisted and read the last word, in a run
\* that had twisted before.
C32_Witness ==
  /\ IsMersenne /\ last.op = "previous"
  /\ eng.pos_ = state_size - 1 /\ net = -1
  /\ trail = <<>> /\ chk.n > state_size

(***************************************************************************)
(* The Ziggurat sampler word by word, under SpecSamples.                   *)
(***************************************************************************)
\* the n-th word a source gives
RECURSIVE WordAt(_, _)
WordAt(u, n) == IF n <= 1 THEN Draw(u).out ELSE WordAt(Draw(u).u, n - 1)

\* whether the loop body of ziggurat returns on the word rand: the
\* rectangle, the tail, or the wedge test on a transient Xoshiro256(rand)
ZigAccepts(rand, below_kn) ==
  \/ AbsBelow(ZigR(rand), rand % zig_layers, below_kn)
  \/ rand % zig_layers = 0
  \/ InWedge(canonical(XoshiroSource(rand)), ZigR(rand), rand % zig_layers)

\* what ziggurat returns on a source that gives rand and has no other state
ZigAlone(rand, below_kn) ==
  ZigguratOf(Draw(ConstantSource(rand, word_size)), below_kn)

\* the last word the last call drew
LastWord == WordAt(SourceOfLast, last.words)

\* C33: in the Ziggurat sampler, whether an outer word is accepted and the
\* value it yields are functions of the word and the distribution alone
\* (index and r cut from the word, the rectangle test, tail and wedge
\* randomness from a transient Xoshiro256 seeded with the word): nothing
\* depends on the direction of travel, on earlier or later outer words, or
\* on the calls made before.
C33_WordAlone ==
  (Called /\ dist.kind = "normal") =>
    /\ \A i \in 1 .. last.words - 1 :
         ~ZigAccepts(WordAt(SourceOfLast, i), dist.below_kn)
    /\ ZigAccepts(LastWord, dist.below_kn)
    /\ last.ret = NormalOf64(ZigAlone(LastWord, dist.below_kn), dist).out

\* A backward sample that met rejected words and was accepted by the wedge
\* test.
C33_Witness ==
  /\ last.op = "previous" /\ dist.kind = "normal" /\ last.words >= 2
  /\ LastWord % zig_layers # 0
  /\ ~AbsBelow(ZigR(LastWord), LastWord % zig_layers, dist.below_kn)

\* the wedge test fails for the word rand: not in the rectangle, not in
\* layer 0 (the tail), and the test on the transient Xoshiro256(rand) false
WedgeFails(rand, below_kn) ==
  /\ ~AbsBelow(ZigR(rand), rand % zig_layers, below_kn)
  /\ rand % zig_layers # 0
  /\ ~InWedge(canonical(XoshiroSource(rand)), ZigR(rand), rand % zig_layers)

\* the engine the last call started from, stepped n times the way it went
SteppedOfLast(n) ==
  IF last.op = "previous" THEN Retreat(last.pre.engine_, n)
  ELSE Advance(last.pre.engine_, n)

\* C34: when the Ziggurat wedge test fails for an outer word, the sampler
\* discards that word and draws a new word from the outer bit source; it
\* returns only on an accepted word, so each sample consumes one or more
\* outer words and the last word consumed is the accepted one that
\* determines the sample.
C34_WedgeRedraws ==
  (Called /\ dist.kind = "normal") =>
    /\ last.words >= 1
    /\ EngineEqual(eng, SteppedOfLast(last.words))
    /\ \A i \in 1 .. last.words :
         WedgeFails(WordAt(SourceOfLast, i), dist.below_kn) <=> i < last.words
    /\ last.ret = Normal(dist, ConstantSource(LastWord, word_size)).out

\* A forward sample that drew three words or more: the wedge test failed
\* twice at least.
C34_Witness ==
  /\ last.op = "next" /\ dist.kind = "normal" /\ last.words >= 3
  /\ WedgeFails(FirstWord.out, dist.below_kn)
  /\ ~WedgeFails(LastWord, dist.below_kn)

(***************************************************************************)
(* The rejection loops of UniformIntDistribution word by word, under       *)
(* SpecSamples.                                                            *)
(***************************************************************************)
\* the bits of the words the last call drew, and of uc_type
WordBitsOfLast == SourceBits(SourceOfLast)
CommonBitsOfLast == Max(WordBitsOfLast, TypeBits(dist.type))

\* range = dist_range + 1 of the last call
RangeOfLast == DistRange(dist, CommonBitsOfLast) + 1

\* the last call went through util::lemires
OnLemires ==
  /\ Called /\ dist.kind = "uniform_int"
  /\ WordBitsOfLast = word_size
  /\ Pow2(word_size) - 1 > DistRange(dist, word_size)

\* the last call went through the modulo rejection loop
OnModulo ==
  /\ Called /\ dist.kind = "uniform_int"
  /\ WordBitsOfLast # word_size
  /\ Pow2(WordBitsOfLast) - 1 > DistRange(dist, CommonBitsOfLast)

\* the low half of rand * range is at least 2^64 mod range
LemiresAccepts(rand, range) ==
  (rand * range) % Pow2(word_size) >= Pow2(word_size) % range

\* A threshold that is the remainder and not the range less the remainder.
ModuloThresholdRemainder(bits, range) == (Pow2(bits) - 1) % range

\* threshold = urng_range - (urng_range % range)
ModuloThreshold(bits, range) ==
  (Pow2(bits) - 1) - ((Pow2(bits) - 1) % range)

\* the sample for the value v in [0, range)
SampleOfValue(v) ==
  OffsetOf(Plain([u |-> SourceOfLast, out |-> v]), dist, CommonBitsOfLast, 0).out

\* C35: in util::lemires a word is accepted if and only if the low half of
\* word * range is at least 2^64 mod range, independently of every other
\* word drawn, and the result is the high half of the product of the first
\* accepted word; the preliminary low < range test never changes which
\* words are accepted.  The same rule word by word holds for the modulo
\* rejection loop: a word is accepted if and only if it is below the
\* threshold.
C35_PerWordRule ==
  /\ OnLemires =>
       /\ \A i \in 1 .. last.words :
            LemiresAccepts(WordAt(SourceOfLast, i), RangeOfLast) <=> i = last.words
       /\ last.ret = SampleOfValue(Shr(LastWord * RangeOfLast, word_size))
  /\ OnModulo =>
       /\ \A i \in 1 .. last.words :
            WordAt(SourceOfLast, i) < ModuloThreshold(WordBitsOfLast, RangeOfLast)
              <=> i = last.words
       /\ last.ret = SampleOfValue(LastWord % RangeOfLast)

\* A backward sample through util::lemires that met a rejected word whose
\* low half is below the range.
C35_Witness ==
  /\ OnLemires /\ last.op = "previous" /\ last.words >= 2
  /\ (FirstWord.out * RangeOfLast) % Pow2(word_size) < RangeOfLast
  /\ RangeOfLast > 2

\* A sample through the modulo loop that met a rejected word.
ModuloRedrawn == OnModulo /\ last.words >= 2

(***************************************************************************)
(* The polar sampler in the runs that stay at or above the seeded          *)
(* position, under SpecPolar.                                              *)
(***************************************************************************)
\* the last call was next() or previous() in a run where previous() was
\* never called more often than next() since seed()
PolarAbove == polar.built /\ last.op \in {"next", "previous"} /\ last.floor >= 0

\* the last call needed a new pair: next() without a saved second sample,
\* previous() with one
PolarFetched ==
  IF last.op = "next" THEN ~last.pre.p.saved_available_
  ELSE last.pre.p.saved_available_

\* the last call drew its pair against the direction of the pair before
PolarTurned == PolarFetched /\ (last.pre.p.reversing_ # (last.op = "previous"))

\* urng_ stepped by two outputs, one call at a time, the way the last call
\* goes
TwoOutputs(g) ==
  RngCall(RngCall(g, last.op = "previous").g, last.op = "previous").g

\* outputs urng_ moved by in the last call, counted the way the call goes
PolarMoved ==
  IF last.op = "previous" THEN last.pre.g.position_ - position
  ELSE position - last.pre.g.position_

\* C36: for the polar sampler, in every interleaving of next() and
\* previous() after seed() in which previous() was never called more often
\* than next(), next() at position p always returns the same value and
\* previous() at position p returns the value of p - 1, also when the
\* uniform source yields rejected pairs; the uniform source is stepped by
\* exactly two outputs, in the new direction, only when a new pair is needed
\* after a change of direction.
C36_PolarAboveSeed ==
  PolarAbove =>
    /\ last.known => last.ret = last.was
    /\ ~PolarFetched => (Rng = last.pre.g /\ polar.reversing_ = last.pre.p.reversing_)
    /\ PolarFetched =>
         /\ polar.reversing_ = (last.op = "previous")
         /\ Rng = PolarLoop(IF PolarTurned THEN TwoOutputs(last.pre.g)
                            ELSE last.pre.g,
                            last.op = "previous", MaxWords).g
         /\ PolarMoved >= (IF PolarTurned THEN 4 ELSE 2)
         /\ PolarMoved % 2 = 0

\* A next() that came back to a position after a previous(), stepped over
\* the pair and met a rejected pair before the one it returned from.
C36_Witness ==
  /\ PolarAbove /\ last.op = "next" /\ PolarTurned
  /\ last.known /\ last.ret = last.was
  /\ PolarMoved >= 6

(***************************************************************************)
(* The rejection loops pass by pass, under SpecLoops: one scalar call of a *)
(* composite, each pass of its loop a step.  eng is the engine, dist the   *)
(* distribution; last holds the place in the call (pc: "draw" at the head  *)
(* of the outer loop, "tail" in the do-while of the Ziggurat tail, "done"  *)
(* after the return), the direction, the engine the call started from, the *)
(* words drawn so far and the transient generator of the tail.             *)
(***************************************************************************)
\* the loop a call of distribution d over words of the given bits runs
LoopOf(d, bits) ==
  CASE d.kind = "normal" -> "ziggurat"
    [] bits = word_size -> "lemires"
    [] OTHER -> "modulo"

\* range = dist_range + 1 of d over words of the given bits
LoopRange(d, bits) == DistRange(d, Max(bits, TypeBits(d.type))) + 1

\* ZigAccepts for every word, in either build, and the transient generator
\* Xoshiro256 rng(rand) for every word
ZigAcceptsOf == [k \in BOOLEAN |-> [rand \in Words |-> ZigAccepts(rand, k)]]
TransientOf == [rand \in Words |-> XoshiroSource(rand)]

\* the pass that drew rand leaves the outer loop
LoopAccepts(d, bits, rand) ==
  CASE LoopOf(d, bits) = "ziggurat" -> ZigAcceptsOf[d.below_kn][rand]
    [] LoopOf(d, bits) = "lemires" -> LemiresAccepts(rand, LoopRange(d, bits))
    [] OTHER -> rand < ModuloThreshold(bits, LoopRange(d, bits))

\* the pass that drew rand goes on in the tail: layer 0 outside the rectangle
LoopInTail(d, rand) ==
  /\ d.kind = "normal"
  /\ rand % zig_layers = 0
  /\ ~AbsBelow(ZigR(rand), 0, d.below_kn)

\* every range of util::lemires, every range of the modulo loop, the
\* Ziggurat in either build
LoopCases ==
  {[engine |-> "pcg64", dist |-> UniformIntDist("ulong", 0, b)] :
     b \in 0 .. Pow2(word_size) - 2}
  \cup {[engine |-> "pcg64", dist |-> NormalDist(0, 1, k)] : k \in BOOLEAN}
  \cup {[engine |-> "pcg32",
         dist |-> UniformIntDist("int", TypeMin("int"), TypeMin("int") + k)] :
     k \in 0 .. Pow2(half_size) - 2}

\* the engines a call can start from: every state of the period of pcg32,
\* the wider engines as seeded
LoopEngines(kind) ==
  IF kind = "pcg32"
  THEN {[kind |-> kind, state |-> st] : st \in 0 .. Pow2(itype_bits(kind)) - 1}
  ELSE {EngineSeed(kind, sd) : sd \in 0 .. MaxSampleSeed}

NoTail == [k |-> "none"]

LoopsInit ==
  /\ \E c \in LoopCases, backward \in BOOLEAN :
       \E e \in LoopEngines(c.engine) :
         /\ eng = e
         /\ dist = c.dist
         /\ last = [op |-> "call", pc |-> "draw", backward |-> backward,
                    start |-> e, words |-> 0, tail |-> NoTail]
  /\ seedv = 0
  /\ position = 0
  /\ net = 0
  /\ fresh = TRUE
  /\ trail = <<>>
  /\ tdir = "next"
  /\ popping = FALSE
  /\ base = "seed"
  /\ chk = NoChk
  /\ scalar = TRUE
  /\ twin = NoTwin
  /\ polar = NoPolar

\* the pass that drew the word of the engine step r
LoopPassed(r) ==
  /\ eng' = r.eng
  /\ last' = [last EXCEPT
       !.words = @ + 1,
       !.pc = IF ~LoopAccepts(dist, result_bits(eng.kind), r.out) THEN "draw"
              ELSE IF LoopInTail(dist, r.out) THEN "tail" ELSE "done",
       !.tail = IF LoopInTail(dist, r.out) THEN TransientOf[r.out]
                ELSE NoTail]
  /\ UNCHANGED <<dist, position, seedv, net, fresh, trail, tdir, popping,
                 base, chk, scalar, twin, polar>>

\* one pass of the outer loop: rand = urng() and the test on it
LoopDraw ==
  /\ last.pc = "draw"
  /\ last.words < MaxWords
  /\ \E r \in {IF last.backward THEN EnginePrevious(eng) ELSE EngineNext(eng)} :
       LoopPassed(r)

\* the pass of the tail that drew the canonical values c1 and c2
TailPassed(c1, c2) ==
  /\ last' = [last EXCEPT
       !.pc = IF 2 * c2.out * Pow2(float64_digits) < c1.out * c1.out
              THEN "tail" ELSE "done",
       !.tail = c2.u]
  /\ UNCHANGED <<eng, dist, position, seedv, net, fresh, trail, tdir, popping,
                 base, chk, scalar, twin, polar>>

\* one pass of do { xx, yy } while (yy + yy < xx * xx) on the transient rng
LoopTail ==
  /\ last.pc = "tail"
  /\ last.tail.n < MaxWords
  /\ \E c1 \in {canonical(last.tail)} :
       \E c2 \in {canonical(c1.u)} : TailPassed(c1, c2)

LoopsStep == LoopDraw \/ LoopTail

SpecLoops == LoopsInit /\ [][LoopsStep]_vars

\* every pass that can be made is made in the end
SpecLoopsFair == SpecLoops /\ WF_vars(LoopDraw) /\ WF_vars(LoopTail)

\* the call as the composite makes it in one piece
CallOfLast ==
  Sample(dist, IF last.backward THEN ReversedSource(last.start)
               ELSE ForwardSource(last.start))

\* some word leaves the outer loop of the call
SomeWordAccepted ==
  \E rand \in 0 .. Pow2(result_bits(eng.kind)) - 1 :
    LoopAccepts(dist, result_bits(eng.kind), rand)

\* the call has returned, on the words and the engine the composite's call
\* takes and leaves
LoopReturned ==
  /\ last.pc = "done"
  /\ ~CallOfLast.stuck
  /\ CallOfLast.u.n = last.words
  /\ EngineEqual(CallOfLast.u.e, eng)

\* C37: every scalar next() and previous() call terminates: for every valid
\* parameter set the acceptance test of each rejection loop (Lemire
\* threshold, modulo threshold, Ziggurat wedge and tail) accepts at least
\* one word, and the loop exits as soon as the engine, stepped fairly in
\* either direction, yields an accepted word.
C37_CallsTerminate ==
  /\ [](SomeWordAccepted)
  /\ [](last.pc = "done" => LoopReturned)
  /\ <>(last.pc = "done")

\* A backward call through util::lemires that returned on its third word.
C37_Witness ==
  /\ LoopReturned /\ last.backward /\ last.words >= 3
  /\ LoopOf(dist, result_bits(eng.kind)) = "lemires"

\* A call of the Ziggurat that returned from the tail after a second pass.
TailReturned ==
  /\ LoopReturned /\ last.tail # NoTail /\ last.tail.n >= 4

(***************************************************************************)
(* SpecParams: every public operation of the composite, one call a step.   *)
(* last holds the call made: its name, its argument n, the value returned  *)
(* and the parameters the distribution had when the call was made.         *)
(***************************************************************************)
\* the parameters of a distribution: a and b, mean and stddev, lambda
Params(d) ==
  CASE d.kind = "uniform_int" -> <<d.a, d.b>>
    [] d.kind = "uniform_real" -> <<d.a, d.b>>
    [] d.kind = "exponential" -> <<d.lambda>>
    [] d.kind = "normal" -> <<d.mean, d.stddev>>
    [] OTHER -> <<>>

\* min() and max() of the distributions that have them
DistMin(d) == IF d.kind = "exponential" THEN 0 ELSE d.a
DistMax(d) == IF d.kind = "exponential" THEN "numeric_limits::max" ELSE d.b

\* the composites of SpecParams, none on the parameters of its default
\* constructor
ParamsGenerators ==
  {[engine |-> "pcg64", dist |-> d] :
     d \in {UniformIntDist("long", -2, 2), UniformRealDist("double", -2, 2),
            ExponentialDist(2)}}
  \cup {[engine |-> "mt", dist |-> NormalDist(5, 2, FALSE)]}

ParamsInit ==
  /\ \E c \in ParamsGenerators, sd \in Seeds :
       /\ eng = EngineSeed(c.engine, sd)
       /\ dist = c.dist
       /\ seedv = sd
  /\ position = 0
  /\ net = 0
  /\ fresh = TRUE
  /\ trail = <<>>
  /\ tdir = "next"
  /\ popping = FALSE
  /\ base = "seed"
  /\ chk = NoChk
  /\ scalar = TRUE
  /\ last = [op |-> "none", n |-> 0, out |-> 0, was |-> <<>>]
  /\ twin = NoTwin
  /\ polar = NoPolar

\* the call op(n) left the composite g and returned out
ParamsCalled(op, n, g, out) ==
  /\ Install(g)
  /\ last' = [op |-> op, n |-> n, out |-> out, was |-> Params(dist)]

ParamsRest ==
  UNCHANGED <<seedv, net, fresh, trail, tdir, popping, base, chk, scalar,
              twin, polar>>

\* rng.seed(sd)
ParamsSeed ==
  /\ \E sd \in Seeds : ParamsCalled("seed", sd, RngSeed(Rng, sd), 0)
  /\ ParamsRest

\* a draw of n values that went as r
ParamsDrawn(op, n, r) ==
  /\ ~r.stuck
  /\ ParamsCalled(op, n, r.g, r.out)

\* rng.next()
ParamsNext ==
  /\ position < MaxAhead
  /\ ParamsDrawn("next", 1, RngNext(Rng))
  /\ ParamsRest

\* rng.previous()
ParamsPrevious ==
  /\ position > -MaxBehind
  /\ ParamsDrawn("previous", 1, RngPrevious(Rng))
  /\ ParamsRest

\* rng.next(N)
ParamsNextVector ==
  /\ \E N \in 0 .. MaxBulk :
       /\ position + N <= MaxAhead
       /\ ParamsDrawn("next(N)", N, NextVector(Rng, N))
  /\ ParamsRest

\* rng.previous(N)
ParamsPreviousVector ==
  /\ \E N \in 0 .. MaxBulk :
       /\ position - N >= -MaxBehind
       /\ ParamsDrawn("previous(N)", N, PreviousVector(Rng, N))
  /\ ParamsRest

\* rng.next<N>()
ParamsNextTuple ==
  /\ \E N \in 0 .. MaxBulk :
       /\ position + N <= MaxAhead
       /\ ParamsDrawn("next<N>", N, NextTuple(Rng, N))
  /\ ParamsRest

\* rng.previous<N>()
ParamsPreviousTuple ==
  /\ \E N \in 0 .. MaxBulk :
       /\ position - N >= -MaxBehind
       /\ ParamsDrawn("previous<N>", N, PreviousTuple(Rng, N))
  /\ ParamsRest

\* rng.discard(z)
ParamsDiscarded(z, r) ==
  /\ ~r.stuck
  /\ ParamsCalled("discard", z, r.g, 0)

ParamsDiscard ==
  /\ \E z \in 0 .. MaxBulk :
       /\ position + z <= MaxAhead
       /\ ParamsDiscarded(z, RngDiscard(Rng, z, FALSE))
  /\ ParamsRest

\* rng.position()
ParamsPosition ==
  /\ ParamsCalled("position", 0, Rng, Rng.position_)
  /\ ParamsRest

\* rng.min(), of the distributions that have min()
ParamsMin ==
  /\ dist.kind # "normal"
  /\ ParamsCalled("min", 0, Rng, DistMin(Rng.distribution_))
  /\ ParamsRest

\* rng.max()
ParamsMax ==
  /\ dist.kind # "normal"
  /\ ParamsCalled("max", 0, Rng, DistMax(Rng.distribution_))
  /\ ParamsRest

\* rng == other, for other equal to rng and for other on a seed of its own
ParamsEqual ==
  /\ \E other \in {Rng} \cup {RngSeed(Rng, sd) : sd \in Seeds} :
       ParamsCalled("==", 0, Rng, RngEqual(Rng, other))
  /\ ParamsRest

\* os << rng
ParamsWrite ==
  /\ ParamsCalled("<<", 0, Rng, FormatRng(Rng))
  /\ ParamsRest

\* is >> rng, on the text of another instance of the type: one on the
\* parameters of the default constructor, or the composite as constructed
ParamsRead ==
  /\ \E sd \in Seeds :
       \E other \in {Another(Rng, sd)}
                      \cup {[Another(Rng, sd) EXCEPT !.distribution_ = c.dist] :
                              c \in {x \in ParamsGenerators :
                                       x.dist.kind = dist.kind}} :
         ParamsCalled(">>", sd, ReadRng(FormatRng(other), Rng).g, 0)
  /\ ParamsRest

ParamsStep ==
  \/ ParamsSeed
  \/ ParamsNext
  \/ ParamsPrevious
  \/ ParamsNextVector
  \/ ParamsPreviousVector
  \/ ParamsNextTuple
  \/ ParamsPreviousTuple
  \/ ParamsDiscard
  \/ ParamsPosition
  \/ ParamsMin
  \/ ParamsMax
  \/ ParamsEqual
  \/ ParamsWrite
  \/ ParamsRead

SpecParams == ParamsInit /\ [][ParamsStep]_vars

\* the calls that return something about the composite
Observers == {"position", "min", "max", "==", "<<"}

\* C38: next(), previous(), the bulk and tuple draws, discard() and seed()
\* never change the distribution parameters of a composite; position(),
\* min(), max(), operator== and operator<< change nothing at all; only
\* operator>> can change the parameters.
C38_ParametersKept ==
  [][/\ Params(dist') # Params(dist) => last'.op = ">>"
     /\ last'.op \in Observers => <<eng', dist', position'>> = <<eng, dist, position>>
    ]_vars

\* A backward tuple draw made on parameters that an operator>> stored: those
\* of the default constructor, which no composite starts on.
C38_Witness ==
  /\ last.op = "previous<N>" /\ last.n = MaxBulk
  /\ dist = DefaultDist(dist)
  /\ last.was = Params(dist)

\* An operator>> that changed the parameters.
ParamsChanged ==
  /\ last.op = ">>"
  /\ last.was # Params(dist)

====
